---- MODULE Spec2Model ----
(***************************************************************************)
(* Element-Tester: the UT61E "auto" multimeter driver stack.               *)
(*   transport.py  -> raw 14-byte ES51922 frames (hardware or simulate)    *)
(*   commands.py   -> cmd_parse_packet: frame -> MeterReading              *)
(*   procedures.py -> init / close / read_once / read_averaged /           *)
(*                    wait_for_stable / read_resistance                    *)
(*   driver.py     -> the facade UT61EAutoDriver and its exceptions        *)
(* the test sequence of core/test_runner.py (TestRunner) and               *)
(* run_hipot_test of procedures/hipot_test_procedures.py.                  *)
(*                                                                         *)
(* Numbers.  A reading's value is a Python float.  Here it is an exact     *)
(* rational <<num, den>> in units of 1/Scale (Scale = 10^4, the finest     *)
(* resolution any row of the range table produces); None is <<>>.          *)
(* Bytes are integers 0..255; a packet is a sequence of bytes, so byte i   *)
(* of the source (0-based) is packet[i+1] here.                            *)
(***************************************************************************)
EXTENDS Integers, Sequences, FiniteSets, TLC

VARIABLES
    simulate,     \* transport.p.simulate (fixed for the session)
    sim_value,    \* UT61EAutoCommands._sim_value, in 1/Scale
    sim_counter,  \* UT61EAutoTransport._sim_counter
    device,       \* UT61EAutoTransport._device: "None" | "unopened" | "open" | "closed"
    phase,        \* position of the decode harness: "input" | "parsed" | "session"
    packet,       \* the argument given to cmd_parse_packet
    parsed,       \* what the call did: [raised, reading]
    op,           \* the procedure the caller is in: "idle" | "read_once" | ...
    ro,           \* the frame of read_once
    av,           \* the frame of read_averaged
    ws,           \* the frame of wait_for_stable
    rr,           \* the frame of read_resistance
    lc,           \* the last call of procedures.init() / close() and what it did
    fa,           \* the frame of the facade operation (driver.py)
    tr,           \* the frame of TestRunner._run_normal_sequence
    ex,           \* the frame of transport._extract_packet_from_report
    hp            \* the frame of run_hipot_test (hipot_test_procedures.py)

decodeVars  == <<phase, packet, parsed>>
sessionVars == <<sim_counter, device, op, ro, av, ws>>
layerVars   == <<rr, lc, fa, tr>>
outerVars   == <<lc, fa, tr>>
unitVars    == <<ex, hp>>
vars == <<simulate, sim_value, sim_counter, device, phase, packet, parsed, op, ro, av, ws,
          rr, lc, fa, tr, ex, hp>>

(***************************************************************************)
(* Fixed-point scale and small arithmetic helpers.                         *)
(***************************************************************************)
Scale == 10000

RECURSIVE Pow10(_)
Pow10(n) == IF n = 0 THEN 1 ELSE 10 * Pow10(n - 1)

Abs(x) == IF x < 0 THEN -x ELSE x

None == <<>>
Some(num, den) == <<num, den>>

HexDigitLower(n) ==
    CASE n = 0 -> "0" [] n = 1 -> "1" [] n = 2 -> "2" [] n = 3 -> "3"
      [] n = 4 -> "4" [] n = 5 -> "5" [] n = 6 -> "6" [] n = 7 -> "7"
      [] n = 8 -> "8" [] n = 9 -> "9" [] n = 10 -> "a" [] n = 11 -> "b"
      [] n = 12 -> "c" [] n = 13 -> "d" [] n = 14 -> "e" [] n = 15 -> "f"

HexDigitUpper(n) ==
    CASE n < 10 -> HexDigitLower(n)
      [] n = 10 -> "A" [] n = 11 -> "B" [] n = 12 -> "C"
      [] n = 13 -> "D" [] n = 14 -> "E" [] n = 15 -> "F"

\* bytes.hex() of a byte string
RECURSIVE BytesHex(_)
BytesHex(bs) ==
    IF bs = <<>> THEN ""
    ELSE HexDigitLower(Head(bs) \div 16) \o HexDigitLower(Head(bs) % 16)
         \o BytesHex(Tail(bs))

\* f"{n:02X}"
Hex02X(n) ==
    IF n < 256 THEN HexDigitUpper(n \div 16) \o HexDigitUpper(n % 16)
    ELSE ToString(n)

\* Python slice seq[a:b] (0-based, end exclusive, clipped to the sequence)
Slice(s, a, b) ==
    LET hi == IF b < Len(s) THEN b ELSE Len(s)
    IN  IF a >= hi THEN <<>> ELSE SubSeq(s, a + 1, hi)

(***************************************************************************)
(* commands.py: _parse_mode_and_range                                      *)
(***************************************************************************)
Row(u, m, s10, d) == [unit |-> u, mode |-> m, scale10 |-> s10, decimal_pos |-> d]

VoltageRanges ==
    << Row("V", "DC Voltage", 22, 3),
       Row("V", "DC Voltage", 220, 4),
       Row("V", "DC Voltage", 2200, 2),
       Row("V", "DC Voltage", 10000, 1),
       Row("mV", "DC Voltage", 2200, 2) >>

ResistanceRanges ==
    << Row("Ohm", "Resistance", 2200, 2),
       Row("kOhm", "Resistance", 22, 3),
       Row("kOhm", "Resistance", 220, 4),
       Row("kOhm", "Resistance", 2200, 2),
       Row("MOhm", "Resistance", 22, 3),
       Row("MOhm", "Resistance", 220, 4),
       Row("MOhm", "Resistance", 2200, 2) >>

CapacitanceRanges ==
    << Row("nF", "Capacitance", 220, 4),
       Row("nF", "Capacitance", 2200, 2),
       Row("uF", "Capacitance", 22, 3),
       Row("uF", "Capacitance", 220, 4),
       Row("uF", "Capacitance", 2200, 2),
       Row("mF", "Capacitance", 22, 3),
       Row("mF", "Capacitance", 220, 4),
       Row("mF", "Capacitance", 2200, 2) >>

FrequencyRanges ==
    << Row("Hz", "Frequency", 2200, 2),
       Row("Hz", "Frequency", 22000, 1),
       Row("kHz", "Frequency", 220, 4),
       Row("kHz", "Frequency", 2200, 2),
       Row("MHz", "Frequency", 22, 3),
       Row("MHz", "Frequency", 220, 4),
       Row("MHz", "Frequency", 2200, 2) >>

MicroampRanges ==
    << Row("uA", "DC Current", 2200, 2),
       Row("uA", "DC Current", 22000, 1) >>

MilliampRanges ==
    << Row("mA", "DC Current", 220, 4),
       Row("mA", "DC Current", 2200, 2) >>

AmpRanges ==
    << Row("A", "DC Current", 100, 4) >>

KnownModes == {11, 3, 6, 2, 13, 15, 0}

RangesOf(mode_byte) ==
    CASE mode_byte = 11 -> VoltageRanges
      [] mode_byte = 3  -> ResistanceRanges
      [] mode_byte = 6  -> CapacitanceRanges
      [] mode_byte = 2  -> FrequencyRanges
      [] mode_byte = 13 -> MicroampRanges
      [] mode_byte = 15 -> MilliampRanges
      [] mode_byte = 0  -> AmpRanges

\* mutant: a range index past the end is clamped to the last row
SelectRow_LastRow(ranges, range_value) ==
    IF range_value < Len(ranges) THEN ranges[range_value + 1] ELSE ranges[Len(ranges)]

\* Get range info, default to first if out of bounds
SelectRow(ranges, range_value) ==
    IF range_value < Len(ranges) THEN ranges[range_value + 1] ELSE ranges[1]

UnknownMode(mode_byte) ==
    [unit |-> "?", mode |-> "Unknown (0x" \o Hex02X(mode_byte) \o ")", decimal_pos |-> 2]

_parse_mode_and_range(mode_byte, range_value) ==
    IF mode_byte \in KnownModes
    THEN SelectRow(RangesOf(mode_byte), range_value)
    ELSE UnknownMode(mode_byte)

(***************************************************************************)
(* commands.py: _digits_to_value                                           *)
(***************************************************************************)
RECURSIVE DigitsToInt(_, _)
DigitsToInt(digits, acc) ==
    IF digits = <<>> THEN acc
    ELSE DigitsToInt(Tail(digits), acc * 10 + Head(digits))

Divisor(decimal_pos) == Pow10(5 - decimal_pos)

\* value_int / divisor in 1/Scale; every divisor 10^(5 - decimal_pos) of the
\* range table divides Scale, so the quotient is exact
_digits_to_value(digits, decimal_pos) ==
    Some((DigitsToInt(digits, 0) * Scale) \div Divisor(decimal_pos), 1)

(***************************************************************************)
(* commands.py: cmd_parse_packet                                           *)
(***************************************************************************)
Terminator == <<13, 10>>

\* mutant: the nibble is taken as it is
DigitOf_Unchecked(digit_byte) == digit_byte % 16

\* digit = digit_byte & 0x0F; a nibble above 9 is taken as 0
DigitOf(digit_byte) ==
    LET digit == digit_byte % 16 IN IF digit > 9 THEN 0 ELSE digit

ExtractDigits(p) == [i \in 1..5 |-> DigitOf(p[i + 1])]

\* info flags (byte 7)
IsPercentOf(info_flags)    == (info_flags \div 8) % 2 = 1
IsNegativeOf(info_flags)   == (info_flags \div 4) % 2 = 1
IsLowBatteryOf(info_flags) == (info_flags \div 2) % 2 = 1
\* mutant: the overload flag read from the low-battery bit
IsOverloadOf_WrongBit(info_flags) == (info_flags \div 2) % 2 = 1

IsOverloadOf(info_flags)   == info_flags % 2 = 1

\* mutant: the sign is not applied
Negate_Dropped(v) == v

Negate(v) == Some(-v[1], v[2])

\* mutant: the digits are converted even when the overload flag is set
BuildValue_IgnoresOverload(digits, mode_info, is_overload, is_negative) ==
    LET value == _digits_to_value(digits, mode_info.decimal_pos)
    IN  IF is_negative THEN Negate(value) ELSE value

\* Build value from digits
BuildValue(digits, mode_info, is_overload, is_negative) ==
    IF is_overload THEN None
    ELSE LET value == _digits_to_value(digits, mode_info.decimal_pos)
         IN  IF is_negative THEN Negate(value) ELSE value

\* the body of the try block: either the reading built, or the error raised
ParseBody(p) ==
    IF Len(p) # 14
    THEN [ok |-> FALSE, error |-> "Invalid packet length: " \o ToString(Len(p))]
    ELSE IF Slice(p, 12, 14) # Terminator
    THEN [ok |-> FALSE, error |-> "Invalid terminator: " \o BytesHex(Slice(p, 12, 14))]
    ELSE
      LET range_value   == p[1] % 8
          digits        == ExtractDigits(p)
          mode_byte     == p[7] % 16
          info_flags    == p[8] % 16
          rel_flags     == p[9] % 16
          voltage_flags == p[11] % 16
          hold_flags    == p[12] % 16
          is_negative   == IsNegativeOf(info_flags)
          is_overload   == IsOverloadOf(info_flags)
          mode_info     == _parse_mode_and_range(mode_byte, range_value)
      IN  [ok |-> TRUE,
           reading |->
             [value       |-> BuildValue(digits, mode_info, is_overload, is_negative),
              unit        |-> mode_info.unit,
              mode        |-> mode_info.mode,
              is_overload |-> is_overload,
              is_negative |-> is_negative,
              flags       |-> [low_battery |-> IsLowBatteryOf(info_flags),
                               hold        |-> (hold_flags \div 2) % 2 = 1,
                               relative    |-> (rel_flags \div 2) % 2 = 1,
                               dc          |-> (voltage_flags \div 8) % 2 = 1,
                               ac          |-> (voltage_flags \div 4) % 2 = 1,
                               auto        |-> (voltage_flags \div 2) % 2 = 1,
                               hz          |-> voltage_flags % 2 = 1,
                               percent     |-> IsPercentOf(info_flags)],
              raw_packet  |-> p]]

\* except Exception as e: return the error reading
ErrorReading(msg, p) ==
    [value       |-> None,
     unit        |-> "?",
     mode        |-> "Parse Error: " \o msg,
     is_overload |-> TRUE,
     is_negative |-> FALSE,
     flags       |-> [error |-> msg],
     raw_packet  |-> p]

\* mutant: the handler lets the error escape
OnParseException_Reraise(msg, p) == [raised |-> TRUE, reading |-> ErrorReading(msg, p)]

OnParseException(msg, p) == [raised |-> FALSE, reading |-> ErrorReading(msg, p)]

SimCeiling == 1500000
SimFloor   == 1000000
SimStep    == 5000

\* mutant: the wrap is taken on reaching the ceiling
NextSimValue_WrapAtCeiling(sv) ==
    IF sv + SimStep >= SimCeiling THEN SimFloor ELSE sv + SimStep

\* self._sim_value += 0.5; if self._sim_value > 150.0: self._sim_value = 100.0
NextSimValue(sv) == IF sv + SimStep > SimCeiling THEN SimFloor ELSE sv + SimStep

SimReading(sv, p) ==
    [value       |-> Some(sv, 1),
     unit        |-> "Ohm",
     mode        |-> "Resistance",
     is_overload |-> FALSE,
     is_negative |-> FALSE,
     flags       |-> [simulate |-> TRUE, auto |-> TRUE],
     raw_packet  |-> p]

\* Handle simulate mode first: the frame is not looked at
UsesSimulatePath(sim) == sim

\* the whole call: [raised, reading, sim_value]
cmd_parse_packet(p, sim, sv) ==
    IF UsesSimulatePath(sim)
    THEN [raised |-> FALSE, reading |-> SimReading(NextSimValue(sv), p),
          sim_value |-> NextSimValue(sv)]
    ELSE LET body == ParseBody(p)
             out  == IF body.ok THEN [raised |-> FALSE, reading |-> body.reading]
                     ELSE OnParseException(body.error, p)
         IN  [raised |-> out.raised, reading |-> out.reading, sim_value |-> sv]

(***************************************************************************)
(* Frames given to the decoder.                                            *)
(***************************************************************************)
\* the five digit bytes (high nibble 0x3 as the meter sends them; a nibble
\* above 9 is a blank/invalid digit)
DigitSeqs ==
    { <<48, 50, 50, 48, 48>>,      \* 0 2 2 0 0
      <<48, 48, 48, 48, 48>>,      \* 0 0 0 0 0
      <<57, 57, 57, 57, 57>>,      \* 9 9 9 9 9
      <<49, 50, 51, 52, 53>>,      \* 1 2 3 4 5
      <<48, 49, 56, 48, 48>>,      \* 0 1 8 0 0
      <<58, 63, 60, 59, 62>>,      \* all nibbles above 9
      <<48, 48, 48, 48, 49>>,      \* 0 0 0 0 1
      <<63, 1, 48, 48, 4>> }       \* mixed high bits, nibbles F 1 0 0 4

MaxRangeIndex == 7
MaxModeNibble == 15
MaxInfoNibble == 15

RangeBytes == {96 + r : r \in 0..MaxRangeIndex}
ModeBytes  == {48 + m : m \in 0..MaxModeNibble}
InfoBytes  == {48 + f : f \in 0..MaxInfoNibble}

MkFrame(rb, ds, mb, ib, term) ==
    <<rb>> \o ds \o <<mb, ib, 48, 48, 59, 48>> \o term

ValidFrames ==
    { MkFrame(rb, ds, mb, ib, Terminator) :
        rb \in RangeBytes, ds \in DigitSeqs, mb \in ModeBytes, ib \in InfoBytes }

BadTerminators == { <<10, 13>>, <<13, 0>>, <<0, 10>>, <<0, 0>> }

\* malformed inputs built from a few frames: wrong terminator, wrong length
MalformedBase ==
    { MkFrame(97, ds, 51, ib, Terminator) : ds \in DigitSeqs, ib \in {48, 49, 52} }

MalformedFrames ==
    { Slice(f, 0, 12) \o t : f \in MalformedBase, t \in BadTerminators }
    \cup { Slice(f, 0, 13) : f \in MalformedBase }
    \cup { f \o <<10>> : f \in MalformedBase }
    \cup { Slice(f, 0, 12) : f \in MalformedBase }
    \cup { <<>>, <<13, 10>> }

DecodeInputs == ValidFrames \cup MalformedFrames

\* the reading variables hold before anything was read
NoReading ==
    [value |-> None, unit |-> "", mode |-> "", is_overload |-> FALSE,
     is_negative |-> FALSE, flags |-> [none |-> TRUE], raw_packet |-> <<>>]

NotParsed == [raised |-> FALSE, reading |-> NoReading]

(***************************************************************************)
(* Exceptions: [type, msg, says_timeout]; says_timeout is                  *)
(* "timeout" in str(e).lower().                                            *)
(***************************************************************************)
Exc(t, m, st) == [type |-> t, msg |-> m, says_timeout |-> st]
NoExc   == Exc("", "", FALSE)
\* last_error = None; str(None) = "None"
NoneErr == Exc("NoneType", "None", FALSE)

\* mutant: the error flag is never looked at
HasError_Never(r) == FALSE

\* 'error' in reading.flags
HasError(r) == "error" \in DOMAIN r.flags

(***************************************************************************)
(* transport.py                                                            *)
(***************************************************************************)
\* mutant: offset 2 is tried before offset 1
OffsetsToTry_Reordered == <<0, 2, 1, 5>>

OffsetsToTry == <<0, 1, 2, 5>>

AllSevenBit(w) == \A i \in 1..Len(w) : w[i] >= 0 /\ w[i] <= 127

RECURSIVE FirstValidWindow(_, _)
FirstValidWindow(report, k) ==
    IF k > Len(OffsetsToTry) THEN <<>>
    ELSE LET offset == OffsetsToTry[k]
         IN  IF offset + 14 <= Len(report)
                /\ AllSevenBit(Slice(report, offset, offset + 14))
             THEN <<Slice(report, offset, offset + 14)>>
             ELSE FirstValidWindow(report, k + 1)

_extract_packet_from_report(report) ==
    LET w == FirstValidWindow(report, 1)
    IN  IF w # <<>> THEN [ok |-> TRUE, packet |-> w[1]]
        ELSE IF Len(report) >= 14 THEN [ok |-> TRUE, packet |-> Slice(report, 0, 14)]
        ELSE [ok |-> FALSE,
              exc |-> Exc("ValueError",
                          "HID report too short: " \o ToString(Len(report)) \o " bytes",
                          FALSE)]

\* f"{resistance_ohms:06.1f}".replace('.', '')[:5] for a resistance given in
\* tenths of an ohm: at least five digits, zero padded, the first five kept
RECURSIVE DecimalDigits(_)
DecimalDigits(n) ==
    IF n < 10 THEN <<n>> ELSE DecimalDigits(n \div 10) \o <<n % 10>>

RECURSIVE ZeroPad(_, _)
ZeroPad(ds, width) == IF Len(ds) >= width THEN ds ELSE ZeroPad(<<0>> \o ds, width)

SimValueStr(tenths) == Slice(ZeroPad(DecimalDigits(tenths), 5), 0, 5)

_generate_sim_packet(tenths) ==
    LET value_str == SimValueStr(tenths)
    IN  <<97>> \o [i \in 1..5 |-> 48 + value_str[i]]
        \o <<51, 48, 48, 48, 59, 48, 13, 10>>

SimBase   == 100
SimPeriod == 50

\* sim_value = 100.0 + (self._sim_counter % 50), in tenths of an ohm
SimResistanceTenths(counter) == (SimBase + (counter % SimPeriod)) * 10

\* except Exception as e: a message that says "timeout" becomes TimeoutError
WrapReadError(e) ==
    IF e.says_timeout
    THEN Exc("TimeoutError", "Timeout reading from HID device: " \o e.msg, TRUE)
    ELSE e

\* what the device hands to one device.read(): a report, nothing, or an error
read_packet(sim, dev, counter, item) ==
    IF sim
    THEN [ok |-> TRUE, packet |-> _generate_sim_packet(SimResistanceTenths(counter + 1)),
          sim_counter |-> counter + 1]
    ELSE IF dev = "None"
    THEN [ok |-> FALSE, exc |-> Exc("RuntimeError", "HID device not open", FALSE),
          sim_counter |-> counter]
    ELSE LET inner ==
               CASE item.kind = "empty" ->
                      [ok |-> FALSE,
                       exc |-> Exc("TimeoutError",
                                   "Timeout reading from UT161E HID device", TRUE)]
                 [] item.kind = "ioerror" -> [ok |-> FALSE, exc |-> item.exc]
                 [] item.kind = "report" -> _extract_packet_from_report(item.bytes)
         IN  IF inner.ok
             THEN [ok |-> TRUE, packet |-> inner.packet, sim_counter |-> counter]
             ELSE [ok |-> FALSE, exc |-> WrapReadError(inner.exc), sim_counter |-> counter]

(***************************************************************************)
(* What the meter may send while a session reads (hardware).               *)
(***************************************************************************)
ResFrame(rb, d1, d2, d3, d4, d5, ib) ==
    MkFrame(rb, <<48 + d1, 48 + d2, 48 + d3, 48 + d4, 48 + d5>>, 51, ib, Terminator)

Frame_18_00k   == ResFrame(97, 0, 1, 8, 0, 0, 48)     \* 18.00 kOhm
Frame_18_40k   == ResFrame(97, 0, 1, 8, 4, 0, 48)     \* 18.40 kOhm
Frame_Zero     == ResFrame(96, 0, 0, 0, 0, 0, 48)     \* 0.000 Ohm
Frame_Overload == ResFrame(97, 0, 1, 8, 0, 0, 49)     \* OL, digits still set
Frame_BadTerm  == Slice(Frame_18_00k, 0, 12) \o <<10, 13>>

FeedReports ==
    { Frame_18_00k, Frame_18_40k, Frame_Zero, Frame_Overload, Frame_BadTerm,
      <<255>> \o Frame_18_40k,       \* one wrapper byte before the frame
      <<19, 171, 205>> }             \* a report shorter than a frame

ReadError == Exc("OSError", "read error", FALSE)
NotOpenError == Exc("ValueError", "not open", FALSE)

\* the items device.read() can produce in each state of the handle, when the
\* meter sends the given reports
FeedOf(sim, dev, reports) ==
    IF sim \/ dev = "None" THEN { [kind |-> "none"] }
    ELSE IF dev = "open"
    THEN { [kind |-> "report", bytes |-> r] : r \in reports }
         \cup { [kind |-> "empty"], [kind |-> "ioerror", exc |-> ReadError] }
    ELSE { [kind |-> "ioerror", exc |-> NotOpenError] }

FeedFor(sim, dev) == FeedOf(sim, dev, FeedReports)

\* a meter on its resistance function, stepping through its ranges
Frame_18_20k  == ResFrame(97, 0, 1, 8, 2, 0, 48)      \* 18.20 kOhm
Frame_1_500   == ResFrame(96, 0, 1, 5, 0, 0, 48)      \* 1.500 Ohm
Frame_0_01M   == ResFrame(100, 0, 0, 0, 0, 1, 48)     \* 0.01 MOhm

ResistanceReports ==
    { Frame_18_00k, Frame_18_40k, Frame_18_20k, Frame_1_500, Frame_0_01M, Frame_Overload }

(***************************************************************************)
(* procedures.py: read_once                                                *)
(***************************************************************************)
DefaultMaxRetries == 3

InitRo ==
    [pc |-> "idle", caller |-> "", max_retries |-> 0, attempt |-> 0,
     last_error |-> NoneErr, reading |-> NoReading, exc |-> NoExc,
     reads |-> 0, failed |-> NoneErr, only_timeouts |-> TRUE]

StartRo(caller, max_retries) ==
    [InitRo EXCEPT !.pc = "loop", !.caller = caller, !.max_retries = max_retries]

RoDone == ro.pc \in {"returned", "raised"}

\* history kept for the properties: what one finished call of read_once gave
\* its caller (a failure, an overload or absent value, or a value)
Observed(r) ==
    IF r.pc = "raised" THEN [kind |-> "failed", v |-> 0]
    ELSE IF r.reading.is_overload \/ r.reading.value = None
    THEN [kind |-> "overload", v |-> 0]
    ELSE [kind |-> "valid", v |-> r.reading.value[1]]

\* one pass of the try block: read a packet, parse it, check the error flag
AttemptOutcome(sim, sv, dev, counter, item) ==
    LET rp == read_packet(sim, dev, counter, item)
    IN  IF ~rp.ok
        THEN [ok |-> FALSE, exc |-> rp.exc, parsed |-> FALSE, reading |-> NoReading,
              sim_value |-> sv, sim_counter |-> rp.sim_counter]
        ELSE LET pr == cmd_parse_packet(rp.packet, sim, sv)
             IN  IF pr.raised
                 THEN [ok |-> FALSE,
                       exc |-> Exc("ValueError", pr.reading.flags.error, FALSE),
                       parsed |-> FALSE, reading |-> NoReading,
                       sim_value |-> pr.sim_value, sim_counter |-> rp.sim_counter]
                 ELSE IF HasError(pr.reading)
                 THEN [ok |-> FALSE,
                       exc |-> Exc("UT61EAutoError",
                                   "Parse error: " \o pr.reading.flags.error, FALSE),
                       parsed |-> TRUE, reading |-> pr.reading,
                       sim_value |-> pr.sim_value, sim_counter |-> rp.sim_counter]
                 ELSE [ok |-> TRUE, exc |-> NoExc, parsed |-> TRUE, reading |-> pr.reading,
                       sim_value |-> pr.sim_value, sim_counter |-> rp.sim_counter]

\* mutant: only the first error is kept
RememberError_First(last_error, e) == IF last_error = NoneErr THEN e ELSE last_error

\* except TimeoutError / except Exception: both keep the error and go on
RememberError(last_error, e) == e

\* raise UT61EAutoTimeoutError(f"Failed to read after {max_retries} attempts: {last_error}")
ExhaustedError(max_retries, last_error) ==
    Exc("UT61EAutoTimeoutError",
        "Failed to read after " \o ToString(max_retries) \o " attempts: " \o last_error.msg,
        last_error.says_timeout)

\* the frame after one loop pass with outcome o
RoAfterAttempt(r, o) ==
    LET seen == [r EXCEPT !.reads = @ + 1,
                          !.reading = IF o.parsed THEN o.reading ELSE @]
    IN  IF o.ok
        THEN [seen EXCEPT !.pc = "returned"]
        ELSE [seen EXCEPT !.last_error = RememberError(r.last_error, o.exc),
                          !.attempt = @ + 1,
                          !.failed = o.exc,
                          !.only_timeouts = @ /\ o.exc.type = "TimeoutError"]

(***************************************************************************)
(* procedures.py: read_averaged                                            *)
(***************************************************************************)
InitAv ==
    [pc |-> "idle", sample_count |-> 0, i |-> 0,
     samples |-> <<>>, units |-> <<>>, modes |-> <<>>,
     result |-> NoReading, exc |-> NoExc,
     calls |-> 0, sleeps |-> 0, seen |-> <<>>, slept_last |-> FALSE]

AvDone == av.pc \in {"returned", "raised"}

RECURSIVE SumSeq(_)
SumSeq(s) == IF s = <<>> THEN 0 ELSE Head(s) + SumSeq(Tail(s))

Count(s, x) == Cardinality({k \in 1..Len(s) : s[k] = x})

\* max(set(xs), key=xs.count): the order of a set of strings is not fixed, so
\* any element of maximal count can be the one returned
MostCommon(xs) ==
    {x \in {xs[k] : k \in 1..Len(xs)} :
        \A y \in {xs[k] : k \in 1..Len(xs)} : Count(xs, y) <= Count(xs, x)}

\* statistics.stdev(samples) if len(samples) > 1 else 0.0, kept as its argument
StdDev(samples) == IF Len(samples) > 1 THEN [stdev_of |-> samples] ELSE [stdev_of |-> <<>>]

\* statistics.mean(samples) as the rational sum/len
Mean(samples) == Some(SumSeq(samples), Len(samples))

\* mutant: a truthiness test, which also drops a reading of exactly 0.0
IsSkipped_Falsy(reading) ==
    reading.is_overload \/ reading.value = None \/ reading.value[1] = 0

\* the sample read_averaged keeps from a reading: None when it is skipped
IsSkipped(reading) == reading.is_overload \/ reading.value = None

SampleCountFlag(samples) == Len(samples)

AveragedReading(samples, unit, mode) ==
    [value       |-> Mean(samples),
     unit        |-> unit,
     mode        |-> mode,
     is_overload |-> FALSE,
     is_negative |-> SumSeq(samples) < 0,
     flags       |-> [averaged |-> TRUE,
                      sample_count |-> SampleCountFlag(samples),
                      std_dev |-> StdDev(samples)],
     raw_packet  |-> <<>>]

\* if not samples
NoSamples(samples) == samples = <<>>

\* mutant: the failure is raised as the timeout class
NoValidSamples_AsTimeout ==
    Exc("UT61EAutoTimeoutError", "No valid samples obtained for averaging", FALSE)

NoValidSamples == Exc("UT61EAutoError", "No valid samples obtained for averaging", FALSE)

\* mutant: the delay follows every kept sample, the last one too
AvAfterSample_SleepsAlways(a, r) ==
    IF r.pc = "raised" \/ IsSkipped(r.reading)
    THEN [a EXCEPT !.i = @ + 1, !.pc = "loop", !.slept_last = FALSE]
    ELSE [a EXCEPT !.samples = Append(@, r.reading.value[1]),
                   !.units = Append(@, r.reading.unit),
                   !.modes = Append(@, r.reading.mode),
                   !.sleeps = @ + 1,
                   !.slept_last = TRUE,
                   !.i = @ + 1, !.pc = "loop"]

\* the frame after read_once came back for sample i
AvAfterSample(a, r) ==
    IF r.pc = "raised"
    THEN [a EXCEPT !.i = @ + 1, !.pc = "loop", !.slept_last = FALSE]
    ELSE IF IsSkipped(r.reading)
    THEN [a EXCEPT !.i = @ + 1, !.pc = "loop", !.slept_last = FALSE]
    ELSE [a EXCEPT !.samples = Append(@, r.reading.value[1]),
                   !.units = Append(@, r.reading.unit),
                   !.modes = Append(@, r.reading.mode),
                   !.sleeps = IF a.i < a.sample_count - 1 THEN @ + 1 ELSE @,
                   !.slept_last = a.i < a.sample_count - 1,
                   !.i = @ + 1, !.pc = "loop"]

(***************************************************************************)
(* procedures.py: wait_for_stable                                          *)
(* Time is counted in ticks of the 0.5 s polling sleep; elapsed is         *)
(* time.time() - start_time.                                               *)
(***************************************************************************)
SleepTicks == 1

InitWs ==
    [pc |-> "idle", timeout_s |-> 0, threshold |-> 0, window_size |-> 0,
     recent_values |-> <<>>, elapsed |-> 0, raised_at |-> 0,
     result |-> NoReading, exc |-> NoExc, calls |-> 0, seen |-> <<>>]

WsDone == ws.pc \in {"returned", "raised"}

\* mutant: the loop gives up one tick early
WithinDeadline_Early(elapsed, timeout_s) == elapsed + 1 < timeout_s

\* while (time.time() - start_time) < timeout_s
WithinDeadline(elapsed, timeout_s) == elapsed < timeout_s

\* recent_values.append(v); if len(recent_values) > window_size: pop(0)
PushWindow(values, v, window_size) ==
    LET appended == Append(values, v)
    IN  IF Len(appended) > window_size THEN Tail(appended) ELSE appended

\* mutant: a strict comparison, max_variation < stability_threshold
IsStable_Strict(values, pct) ==
    LET n == Len(values)
        total == SumSeq(values)
    IN  IF total = 0
        THEN \A k \in 1..n : 100 * Abs(values[k]) < pct * Scale
        ELSE \A k \in 1..n : 100 * Abs(n * values[k] - total) < pct * Abs(total)

\* max_variation <= stability_threshold, the threshold given in percent;
\* mean == 0 compares the absolute values instead
IsStable(values, pct) ==
    LET n == Len(values)
        total == SumSeq(values)
    IN  IF total = 0
        THEN \A k \in 1..n : 100 * Abs(values[k]) <= pct * Scale
        ELSE \A k \in 1..n : 100 * Abs(n * values[k] - total) <= pct * Abs(total)

StabilityTimeout(timeout_s, pct) ==
    Exc("UT61EAutoTimeoutError",
        "Reading did not stabilize within " \o ToString(timeout_s) \o "s (threshold="
            \o ToString(pct) \o "%)",
        FALSE)

\* mutant: an overload or a failed read leaves the window as it is
WsBody_KeepsWindow(w, r) ==
    IF r.pc = "raised" \/ IsSkipped(r.reading)
    THEN [w EXCEPT !.pc = "sleep"]
    ELSE LET window == PushWindow(w.recent_values, r.reading.value[1], w.window_size)
             pushed == [w EXCEPT !.recent_values = window]
         IN  IF Len(window) >= w.window_size /\ window # <<>> /\ IsStable(window, w.threshold)
             THEN [pushed EXCEPT !.pc = "returned", !.result = r.reading]
             ELSE [pushed EXCEPT !.pc = "sleep"]

\* what the loop body does with what read_once gave: "return" | "sleep"
\* (an exception inside the body, read_once's or statistics.mean([])'s, is
\* caught: clear the window and sleep)
WsBody(w, r) ==
    IF r.pc = "raised"
    THEN [w EXCEPT !.recent_values = <<>>, !.pc = "sleep"]
    ELSE IF IsSkipped(r.reading)
    THEN [w EXCEPT !.recent_values = <<>>, !.pc = "sleep"]
    ELSE LET window == PushWindow(w.recent_values, r.reading.value[1], w.window_size)
             pushed == [w EXCEPT !.recent_values = window]
         IN  IF Len(window) >= w.window_size
             THEN IF window = <<>>
                  THEN [pushed EXCEPT !.recent_values = <<>>, !.pc = "sleep"]
                  ELSE IF IsStable(window, w.threshold)
                  THEN [pushed EXCEPT !.pc = "returned", !.result = r.reading]
                  ELSE [pushed EXCEPT !.pc = "sleep"]
             ELSE [pushed EXCEPT !.pc = "sleep"]

(***************************************************************************)
(* procedures.py: read_resistance                                          *)
(* The float it returns, a resistance in ohms, is kept as an exact         *)
(* rational <<num, den>> of whole ohms.                                    *)
(***************************************************************************)
InitRr == [pc |-> "idle", average_count |-> 0, result |-> None, exc |-> NoExc]

RrDone == rr.pc \in {"returned", "raised"}

\* mutant: the unit is compared as it is spelled
LowerUnit_AsSpelled(unit) == unit

\* reading.unit.lower(), over the units the decoder gives
LowerUnit(unit) ==
    CASE unit = "Ohm"  -> "ohm"
      [] unit = "kOhm" -> "kohm"
      [] unit = "MOhm" -> "mohm"
      [] unit = "V"    -> "v"
      [] unit = "mV"   -> "mv"
      [] unit = "nF"   -> "nf"
      [] unit = "uF"   -> "uf"
      [] unit = "mF"   -> "mf"
      [] unit = "Hz"   -> "hz"
      [] unit = "kHz"  -> "khz"
      [] unit = "MHz"  -> "mhz"
      [] unit = "uA"   -> "ua"
      [] unit = "mA"   -> "ma"
      [] unit = "A"    -> "a"
      [] OTHER         -> unit

\* 'kohm' in unit or 'k\u03c9' in unit: of the lowered units only "kohm" has either
SaysKilo(unit) == unit = "kohm"

\* 'mohm' in unit or 'm\u03c9' in unit
SaysMega(unit) == unit = "mohm"

\* value *= 1000 / value *= 1_000_000 / value left as it is
OhmsFactor(reading_unit) ==
    LET unit == LowerUnit(reading_unit)
    IN  IF SaysKilo(unit) THEN 1000
        ELSE IF SaysMega(unit) THEN 1000000
        ELSE 1

\* value (in 1/Scale) times factor, in whole ohms
TimesFactor(value, factor) ==
    IF factor >= Scale
    THEN Some(value[1] * (factor \div Scale), value[2])
    ELSE Some(value[1], value[2] * (Scale \div factor))

\* the value read_resistance returns for the averaged reading
ResistanceOf(reading) == TimesFactor(reading.value, OhmsFactor(reading.unit))

\* the procedures whose frame runs read_averaged's loop
AveragingOps == {"read_averaged", "read_resistance"}

(***************************************************************************)
(* transport.py: open / close / is_open / flush_input, and procedures.py:  *)
(* init / close.  The handle self._device is "None" before any open,       *)
(* "unopened" once hid.device() made the object, "open" after its open()   *)
(* succeeded and "closed" after its close() did.                           *)
(***************************************************************************)
\* how far transport.open() gets on hardware: hidapi missing, device.open()
\* raises, a call after device.open() raises, or all of it succeeds
OpenOutcomes == {"no_hidapi", "open_raises", "late_raises", "ok"}

transport_open(sim, dev, outcome) ==
    IF sim THEN [device |-> dev, opened |-> FALSE, exc |-> NoExc]
    ELSE IF outcome = "no_hidapi"
    THEN [device |-> dev, opened |-> FALSE,
          exc |-> Exc("RuntimeError", "hidapi not installed", FALSE)]
    ELSE IF outcome = "open_raises"
    THEN [device |-> "unopened", opened |-> FALSE,
          exc |-> Exc("RuntimeError", "Failed to open HID device: open failed", FALSE)]
    ELSE IF outcome = "late_raises"
    THEN [device |-> "open", opened |-> TRUE,
          exc |-> Exc("RuntimeError", "Failed to open HID device: set_nonblocking failed",
                      FALSE)]
    ELSE [device |-> "open", opened |-> TRUE, exc |-> NoExc]

\* if self._device: try: self._device.close() except Exception: pass
\* called: device.close() was invoked; a close that raises leaves the handle as it was
transport_close(sim, dev, close_raises) ==
    IF sim \/ dev = "None"
    THEN [device |-> dev, called |-> FALSE, exc |-> NoExc]
    ELSE [device |-> IF close_raises THEN dev
                     ELSE IF dev = "open" THEN "closed" ELSE dev,
          called |-> TRUE, exc |-> NoExc]

is_open(sim, dev) == IF sim THEN TRUE ELSE dev # "None"

\* only sleeps
flush_input(sim, dev) == [exc |-> NoExc]

\* procedures.init(): transport.open(); time.sleep(0.5); transport.flush_input()
procedures_init(sim, dev, outcome) ==
    LET o == transport_open(sim, dev, outcome)
        f == IF o.exc = NoExc THEN flush_input(sim, o.device).exc ELSE o.exc
    IN  [device |-> o.device, opened |-> o.opened,
         exc |-> IF f = NoExc THEN NoExc
                 ELSE Exc("UT61EAutoError", "Failed to initialize UT61E Auto: " \o f.msg,
                          f.says_timeout)]

\* procedures.close(): try: transport.close() except Exception: log
procedures_close(sim, dev, close_raises) ==
    LET c == transport_close(sim, dev, close_raises)
    IN  [device |-> c.device, called |-> c.called, exc |-> NoExc]

InitLc ==
    [call |-> "none", closed_before |-> FALSE, exc |-> NoExc,
     handle_opened |-> FALSE, handle_close_called |-> FALSE, handle_close_raised |-> FALSE]

(***************************************************************************)
(* errors.py and driver.py: the facade UT61EAutoDriver                     *)
(***************************************************************************)
\* the classes an exception of the given class is an instance of
Bases(type) ==
    CASE type = "UT61EAutoTimeoutError" ->
             {"UT61EAutoTimeoutError", "UT61EAutoError", "Exception"}
      [] type = "UT61EAutoError" -> {"UT61EAutoError", "Exception"}
      [] type = "TimeoutError"   -> {"TimeoutError", "OSError", "Exception"}
      [] OTHER                   -> {type, "Exception"}

IsInstance(e, class) == class \in Bases(e.type)

\* mutant: the handler raises a builtin class
Wrapped_Builtin(prefix, e) == Exc("RuntimeError", prefix \o e.msg, e.says_timeout)

\* except Exception as e: raise UT61EAutoError(f"<prefix>{e}") from e
Wrapped(prefix, e) == Exc("UT61EAutoError", prefix \o e.msg, e.says_timeout)

\* except TimeoutError as e: raise UT61EAutoTimeoutError(f"<prefix>{e}") from e
WrappedTimeout(prefix, e, says_timeout) ==
    Exc("UT61EAutoTimeoutError", prefix \o e.msg, says_timeout)

initialize_error(e) == Wrapped("Failed to initialize UT61E Auto: ", e)

read_value_error(e) ==
    IF IsInstance(e, "TimeoutError")
    THEN WrappedTimeout("Timeout reading from UT61E Auto: ", e, TRUE)
    ELSE Wrapped("Failed to read from UT61E Auto: ", e)

read_resistance_error(e) == Wrapped("Failed to read resistance: ", e)

read_averaged_error(e) == Wrapped("Failed to read averaged value: ", e)

wait_for_stable_error(e) ==
    IF IsInstance(e, "TimeoutError")
    THEN WrappedTimeout("Reading did not stabilize: ", e, e.says_timeout)
    ELSE Wrapped("Failed waiting for stable reading: ", e)

DefaultWindowSize == 3

InitFa == [call |-> "none", pc |-> "idle", exc |-> NoExc, is_open |-> FALSE]

FaDone == fa.pc # "call"

(***************************************************************************)
(* test_runner.py: TestRunner.run_full_sequence / _run_normal_sequence     *)
(***************************************************************************)
\* dialog: ContinueExitDialog was imported; relay_driver, hipot_test_seq: the
\* drivers __init__ managed to create; calls: run_measuring / run_hipot as invoked
InitTr ==
    [pc |-> "idle", dialog |-> FALSE, relay_driver |-> FALSE, hipot_test_seq |-> FALSE,
     attempt |-> 0, calls |-> <<>>, hip_detail_bound |-> FALSE,
     all_off |-> 0, open_relay |-> 0, ui_closed |-> FALSE, logged |-> FALSE,
     ok |-> FALSE, ret |-> "", exc |-> NoExc]

\* _run_normal_sequence returns; run_full_sequence logs the result and returns
Returned(t, ok, msg) ==
    [t EXCEPT !.pc = "done", !.ok = ok, !.ret = msg, !.logged = TRUE]

\* a return statement that names hip_detail, a local the hipot loop binds
ReturnWithHipDetail(t, ok, msg) ==
    IF t.hip_detail_bound
    THEN Returned(t, ok, msg)
    ELSE [t EXCEPT !.pc = "raised",
                   !.exc = Exc("UnboundLocalError",
                               "local variable 'hip_detail' referenced before assignment",
                               FALSE)]

\* if self.relay_driver: self.relay_driver.all_off()
AllOff(t) == IF t.relay_driver THEN [t EXCEPT !.all_off = @ + 1] ELSE t

\* if self.hipot_test_seq: self.hipot_test_seq.open_relay()
OpenRelay(t) == IF t.hipot_test_seq THEN [t EXCEPT !.open_relay = @ + 1] ELSE t

\* ui.close()
CloseUi(t) == [t EXCEPT !.ui_closed = TRUE]

\* one more entry in the record of invocations
Invoked(t, fn, passed) == [t EXCEPT !.calls = Append(@, [fn |-> fn, passed |-> passed])]

(***************************************************************************)
(* One call of _extract_packet_from_report on a report, and one call of    *)
(* run_hipot_test.                                                         *)
(***************************************************************************)
InitEx == [pc |-> "idle", report |-> <<>>, packet |-> <<>>, exc |-> NoExc]

\* relay_closed = False; calls is the sequence of driver calls made so far in
\* this call, runs the number of calls begun, relay8 the state of relay 8 on
\* the board (a driver call that raises leaves it as it was)
InitHp ==
    [pc |-> "idle", keep_relay_closed |-> FALSE, reset_after_test |-> FALSE,
     relay_closed |-> FALSE, calls |-> <<>>, passed |-> FALSE,
     ret |-> "", exc |-> NoExc, runs |-> 0, relay8 |-> "open"]

\* relay 8 after a call of the relay driver
Relay8After(relay8, fn, ok) ==
    IF ~ok THEN relay8
    ELSE IF fn = "all_off" THEN "open"
    ELSE IF fn = "set_relay" THEN "closed"
    ELSE relay8

\* one driver call, and whether it returned
DriverCall(fn, ok) == [fn |-> fn, ok |-> ok]

\* a step of the try block: the call returns and the sequence goes on, or it
\* raises and the step's handler raises Exception(f"{prefix}: {e}")
HpStep(h, fn, ok, next_pc, prefix) ==
    IF ok
    THEN [h EXCEPT !.calls = Append(@, DriverCall(fn, TRUE)), !.pc = next_pc,
                   !.relay8 = Relay8After(@, fn, TRUE)]
    ELSE [h EXCEPT !.calls = Append(@, DriverCall(fn, FALSE)), !.pc = "except",
                   !.exc = Exc("Exception", prefix \o ": " \o fn \o " failed", FALSE)]

\* mutant: the handler only logs and re-raises
NeedsEmergencyOff_Never(h) == FALSE

\* if relay_closed and not keep_relay_closed
NeedsEmergencyOff(h) == h.relay_closed /\ ~h.keep_relay_closed

\* return passed, raw_result
HpResult(passed) == IF passed THEN "PASS" ELSE "FAIL"

(***************************************************************************)
(* The session: a caller that opens and closes the transport and runs the  *)
(* reading procedures one after the other.                                 *)
(***************************************************************************)
MaxRetries   == 2
MaxSamples   == 3
MaxWindow    == 2
MaxTimeout   == 3
MaxReadTicks == 1
MaxSimReads  == 6

ThresholdPcts == {-5, 0, 5}

SessionIdle ==
    /\ sim_counter = 0
    /\ device = "None"
    /\ op = "idle"
    /\ ro = InitRo
    /\ av = InitAv
    /\ ws = InitWs
    /\ rr = InitRr
    /\ lc = InitLc
    /\ fa = InitFa

Init ==
    /\ simulate \in BOOLEAN
    /\ sim_value = SimFloor
    /\ phase = "session"
    /\ packet = <<>>
    /\ parsed = NotParsed
    /\ SessionIdle
    /\ ex = InitEx /\ hp = InitHp
    /\ tr = InitTr

\* no procedure is running
TopIdle ==
    \/ op = "idle"
    \/ op = "read_once" /\ RoDone
    \/ op = "read_averaged" /\ AvDone
    \/ op = "wait_for_stable" /\ WsDone
    \/ op = "read_resistance" /\ RrDone

\* transport.open(): the device object is stored before it is opened
TransportOpen ==
    /\ TopIdle
    /\ \E outcome \in OpenOutcomes :
         device' = transport_open(simulate, device, outcome).device
    /\ op' = "idle" /\ ro' = InitRo /\ av' = InitAv /\ ws' = InitWs /\ rr' = InitRr
    /\ UNCHANGED <<simulate, sim_value, sim_counter>>
    /\ UNCHANGED decodeVars
    /\ UNCHANGED unitVars
    /\ UNCHANGED outerVars

\* transport.close(): closes the handle, keeps the object
TransportClose ==
    /\ TopIdle
    /\ \E close_raises \in BOOLEAN :
         device' = transport_close(simulate, device, close_raises).device
    /\ op' = "idle" /\ ro' = InitRo /\ av' = InitAv /\ ws' = InitWs /\ rr' = InitRr
    /\ UNCHANGED <<simulate, sim_value, sim_counter>>
    /\ UNCHANGED decodeVars
    /\ UNCHANGED unitVars
    /\ UNCHANGED outerVars

CallReadOnce ==
    /\ TopIdle
    /\ \E max_retries \in 0..MaxRetries :
         ro' = StartRo("caller", max_retries)
    /\ op' = "read_once" /\ av' = InitAv /\ ws' = InitWs /\ rr' = InitRr
    /\ UNCHANGED <<simulate, sim_value, sim_counter, device>>
    /\ UNCHANGED decodeVars
    /\ UNCHANGED unitVars
    /\ UNCHANGED outerVars

\* one pass of read_once's for loop, on what the device hands out
ReadOnceAttemptOn(feed, sim_limit) ==
    /\ ro.pc = "loop" /\ ro.attempt < ro.max_retries
    /\ simulate => sim_counter < sim_limit
    /\ \E item \in feed :
         LET o == AttemptOutcome(simulate, sim_value, device, sim_counter, item)
         IN  /\ ro' = RoAfterAttempt(ro, o)
             /\ sim_value' = o.sim_value
             /\ sim_counter' = o.sim_counter
    /\ \E d \in 0..MaxReadTicks :
         ws' = IF op = "wait_for_stable"
               THEN [ws EXCEPT !.elapsed = IF @ + d > MaxTimeout + 1 THEN MaxTimeout + 1
                                           ELSE @ + d]
               ELSE ws
    /\ UNCHANGED <<simulate, device, op, av>>
    /\ UNCHANGED decodeVars
    /\ UNCHANGED unitVars
    /\ UNCHANGED layerVars

ReadOnceAttempt == ReadOnceAttemptOn(FeedFor(simulate, device), MaxSimReads)

\* all retries failed
ReadOnceExhausted ==
    /\ ro.pc = "loop" /\ ro.attempt >= ro.max_retries
    /\ ro' = [ro EXCEPT !.pc = "raised",
                        !.exc = ExhaustedError(ro.max_retries, ro.last_error)]
    /\ UNCHANGED <<simulate, sim_value, sim_counter, device, op, av, ws>>
    /\ UNCHANGED decodeVars
    /\ UNCHANGED unitVars
    /\ UNCHANGED layerVars

CallReadAveraged ==
    /\ TopIdle
    /\ \E sample_count \in 0..MaxSamples :
         av' = [InitAv EXCEPT !.pc = "loop", !.sample_count = sample_count]
    /\ op' = "read_averaged" /\ ro' = InitRo /\ ws' = InitWs /\ rr' = InitRr
    /\ UNCHANGED <<simulate, sim_value, sim_counter, device>>
    /\ UNCHANGED decodeVars
    /\ UNCHANGED unitVars
    /\ UNCHANGED outerVars

\* for i in range(sample_count): reading = self.read_once()
AvCallReadOnce ==
    /\ op \in AveragingOps /\ av.pc = "loop" /\ av.i < av.sample_count
    /\ av' = [av EXCEPT !.pc = "call", !.calls = @ + 1]
    /\ ro' = StartRo("read_averaged", DefaultMaxRetries)
    /\ UNCHANGED <<simulate, sim_value, sim_counter, device, op, ws>>
    /\ UNCHANGED decodeVars
    /\ UNCHANGED unitVars
    /\ UNCHANGED layerVars

AvHandleSample ==
    /\ op \in AveragingOps /\ av.pc = "call" /\ RoDone
    /\ av' = [AvAfterSample(av, ro) EXCEPT !.seen = Append(av.seen, Observed(ro))]
    /\ ro' = InitRo
    /\ UNCHANGED <<simulate, sim_value, sim_counter, device, op, ws>>
    /\ UNCHANGED decodeVars
    /\ UNCHANGED unitVars
    /\ UNCHANGED layerVars

\* after the loop: no samples -> error, else the averaged reading
AvFinish ==
    /\ op \in AveragingOps /\ av.pc = "loop" /\ av.i >= av.sample_count
    /\ IF NoSamples(av.samples)
       THEN av' = [av EXCEPT !.pc = "raised", !.exc = NoValidSamples]
       ELSE \E unit \in MostCommon(av.units), mode \in MostCommon(av.modes) :
              av' = [av EXCEPT !.pc = "returned",
                               !.result = AveragedReading(av.samples, unit, mode)]
    /\ UNCHANGED <<simulate, sim_value, sim_counter, device, op, ro, ws>>
    /\ UNCHANGED decodeVars
    /\ UNCHANGED unitVars
    /\ UNCHANGED layerVars

CallWaitForStable ==
    /\ TopIdle
    /\ \E timeout_s \in 0..MaxTimeout, pct \in ThresholdPcts, window_size \in 0..MaxWindow :
         ws' = [InitWs EXCEPT !.pc = "loop", !.timeout_s = timeout_s,
                              !.threshold = pct, !.window_size = window_size]
    /\ op' = "wait_for_stable" /\ ro' = InitRo /\ av' = InitAv /\ rr' = InitRr
    /\ UNCHANGED <<simulate, sim_value, sim_counter, device>>
    /\ UNCHANGED decodeVars
    /\ UNCHANGED unitVars
    /\ UNCHANGED outerVars

\* the while test: go round again, or give up
WsLoopTest ==
    /\ op = "wait_for_stable" /\ ws.pc = "loop"
    /\ IF WithinDeadline(ws.elapsed, ws.timeout_s)
       THEN /\ ws' = [ws EXCEPT !.pc = "call", !.calls = @ + 1]
            /\ ro' = StartRo("wait_for_stable", DefaultMaxRetries)
       ELSE /\ ws' = [ws EXCEPT !.pc = "raised", !.raised_at = ws.elapsed,
                                !.exc = StabilityTimeout(ws.timeout_s, ws.threshold)]
            /\ ro' = ro
    /\ UNCHANGED <<simulate, sim_value, sim_counter, device, op, av>>
    /\ UNCHANGED decodeVars
    /\ UNCHANGED unitVars
    /\ UNCHANGED layerVars

\* the loop body on what read_once gave
WsHandleRead ==
    /\ op = "wait_for_stable" /\ ws.pc = "call" /\ RoDone
    /\ ws' = [WsBody(ws, ro) EXCEPT !.seen = Append(ws.seen, Observed(ro))]
    /\ ro' = InitRo
    /\ UNCHANGED <<simulate, sim_value, sim_counter, device, op, av>>
    /\ UNCHANGED decodeVars
    /\ UNCHANGED unitVars
    /\ UNCHANGED layerVars

\* time.sleep(0.5) at the end of a pass
WsSleep ==
    /\ op = "wait_for_stable" /\ ws.pc = "sleep"
    /\ ws' = [ws EXCEPT !.pc = "loop",
                        !.elapsed = IF @ + SleepTicks > MaxTimeout + 1 THEN MaxTimeout + 1
                                    ELSE @ + SleepTicks]
    /\ UNCHANGED <<simulate, sim_value, sim_counter, device, op, ro, av>>
    /\ UNCHANGED decodeVars
    /\ UNCHANGED unitVars
    /\ UNCHANGED layerVars

Next ==
    \/ TransportOpen
    \/ TransportClose
    \/ CallReadOnce
    \/ ReadOnceAttempt
    \/ ReadOnceExhausted
    \/ CallReadAveraged
    \/ AvCallReadOnce
    \/ AvHandleSample
    \/ AvFinish
    \/ CallWaitForStable
    \/ WsLoopTest
    \/ WsHandleRead
    \/ WsSleep

Spec == Init /\ [][Next]_vars

(***************************************************************************)
(* read_averaged on a hardware session, run to its end: the interpreter    *)
(* goes on with the next statement, a read_packet blocks for at most       *)
(* timeout_ms and every sleep is finite, so each step that can be taken    *)
(* is taken.                                                               *)
(***************************************************************************)
InitAveraged ==
    /\ simulate = FALSE
    /\ sim_value = SimFloor
    /\ phase = "session"
    /\ packet = <<>>
    /\ parsed = NotParsed
    /\ SessionIdle
    /\ ex = InitEx /\ hp = InitHp
    /\ tr = InitTr

NextAveraged ==
    \/ TransportOpen
    \/ CallReadAveraged
    \/ ReadOnceAttempt
    \/ ReadOnceExhausted
    \/ AvCallReadOnce
    \/ AvHandleSample
    \/ AvFinish

SpecAveraged ==
    /\ InitAveraged /\ [][NextAveraged]_vars
    /\ WF_vars(ReadOnceAttempt) /\ WF_vars(ReadOnceExhausted)
    /\ WF_vars(AvCallReadOnce) /\ WF_vars(AvHandleSample) /\ WF_vars(AvFinish)

(***************************************************************************)
(* read_resistance on a meter that is on its resistance function.          *)
(***************************************************************************)
\* reading = self.read_averaged(sample_count=average_count, delay_s=0.3)
CallReadResistance ==
    /\ TopIdle
    /\ \E average_count \in 0..MaxSamples :
         /\ rr' = [InitRr EXCEPT !.pc = "call", !.average_count = average_count]
         /\ av' = [InitAv EXCEPT !.pc = "loop", !.sample_count = average_count]
    /\ op' = "read_resistance" /\ ro' = InitRo /\ ws' = InitWs
    /\ UNCHANGED <<simulate, sim_value, sim_counter, device>>
    /\ UNCHANGED decodeVars
    /\ UNCHANGED unitVars
    /\ UNCHANGED outerVars

\* read_averaged came back: its error goes up, its reading is converted to ohms
RrFinish ==
    /\ op = "read_resistance" /\ rr.pc = "call" /\ AvDone
    /\ rr' = IF av.pc = "raised"
             THEN [rr EXCEPT !.pc = "raised", !.exc = av.exc]
             ELSE [rr EXCEPT !.pc = "returned", !.result = ResistanceOf(av.result)]
    /\ UNCHANGED <<simulate, sim_value, sim_counter, device, op, ro, av, ws>>
    /\ UNCHANGED decodeVars
    /\ UNCHANGED unitVars
    /\ UNCHANGED outerVars

ResistanceAttempt ==
    ReadOnceAttemptOn(FeedOf(simulate, device, ResistanceReports), MaxSimReads)

NextResistance ==
    \/ TransportOpen
    \/ CallReadResistance
    \/ ResistanceAttempt
    \/ ReadOnceExhausted
    \/ AvCallReadOnce
    \/ AvHandleSample
    \/ AvFinish
    \/ RrFinish

SpecResistance == Init /\ [][NextResistance]_vars

(***************************************************************************)
(* The facade: a caller that only uses UT61EAutoDriver.                    *)
(***************************************************************************)
FacadeIdle == FaDone /\ TopIdle

StartFa(call) == [call |-> call, pc |-> "call", exc |-> NoExc, is_open |-> FALSE]

\* initialize(): proc.init(), any exception wrapped
FacadeInitialize ==
    /\ FacadeIdle
    /\ \E outcome \in OpenOutcomes :
         LET r == procedures_init(simulate, device, outcome)
         IN  /\ device' = r.device
             /\ lc' = [InitLc EXCEPT !.call = "init", !.exc = r.exc,
                                     !.handle_opened = r.opened]
             /\ fa' = IF r.exc = NoExc
                      THEN [StartFa("initialize") EXCEPT !.pc = "returned"]
                      ELSE [StartFa("initialize") EXCEPT !.pc = "raised",
                                                         !.exc = initialize_error(r.exc)]
    /\ op' = "idle" /\ ro' = InitRo /\ av' = InitAv /\ ws' = InitWs /\ rr' = InitRr
    /\ UNCHANGED <<simulate, sim_value, sim_counter, tr>>
    /\ UNCHANGED decodeVars
    /\ UNCHANGED unitVars

\* shutdown(): proc.close(), any exception logged
FacadeShutdown ==
    /\ FacadeIdle
    /\ \E close_raises \in BOOLEAN :
         LET r == procedures_close(simulate, device, close_raises)
         IN  /\ device' = r.device
             /\ lc' = [InitLc EXCEPT !.call = "close", !.exc = r.exc,
                                     !.closed_before = (device = "closed"),
                                     !.handle_close_called = r.called,
                                     !.handle_close_raised = r.called /\ close_raises]
             /\ fa' = [StartFa("shutdown") EXCEPT !.pc = "returned"]
    /\ op' = "idle" /\ ro' = InitRo /\ av' = InitAv /\ ws' = InitWs /\ rr' = InitRr
    /\ UNCHANGED <<simulate, sim_value, sim_counter, tr>>
    /\ UNCHANGED decodeVars
    /\ UNCHANGED unitVars

\* get_device_info(): reads transport.is_open() and the parameters
GetDeviceInfo ==
    /\ FacadeIdle
    /\ fa' = [StartFa("get_device_info") EXCEPT !.pc = "returned",
                                                !.is_open = is_open(simulate, device)]
    /\ UNCHANGED <<simulate, sim_value, sim_counter, device, op, ro, av, ws, rr, lc, tr>>
    /\ UNCHANGED decodeVars
    /\ UNCHANGED unitVars

FacadeReadValue ==
    /\ FacadeIdle
    /\ \E max_retries \in 0..MaxRetries :
         ro' = StartRo("read_value", max_retries)
    /\ fa' = StartFa("read_value")
    /\ op' = "read_once" /\ av' = InitAv /\ ws' = InitWs /\ rr' = InitRr
    /\ UNCHANGED <<simulate, sim_value, sim_counter, device, lc, tr>>
    /\ UNCHANGED decodeVars
    /\ UNCHANGED unitVars

FacadeReadResistance ==
    /\ FacadeIdle
    /\ \E average_count \in 0..MaxSamples :
         /\ rr' = [InitRr EXCEPT !.pc = "call", !.average_count = average_count]
         /\ av' = [InitAv EXCEPT !.pc = "loop", !.sample_count = average_count]
    /\ fa' = StartFa("read_resistance")
    /\ op' = "read_resistance" /\ ro' = InitRo /\ ws' = InitWs
    /\ UNCHANGED <<simulate, sim_value, sim_counter, device, lc, tr>>
    /\ UNCHANGED decodeVars
    /\ UNCHANGED unitVars

FacadeReadAveraged ==
    /\ FacadeIdle
    /\ \E sample_count \in 0..MaxSamples :
         av' = [InitAv EXCEPT !.pc = "loop", !.sample_count = sample_count]
    /\ fa' = StartFa("read_averaged")
    /\ op' = "read_averaged" /\ ro' = InitRo /\ ws' = InitWs /\ rr' = InitRr
    /\ UNCHANGED <<simulate, sim_value, sim_counter, device, lc, tr>>
    /\ UNCHANGED decodeVars
    /\ UNCHANGED unitVars

\* wait_for_stable(timeout_s, stability_threshold): window_size is left at its default
FacadeWaitForStable ==
    /\ FacadeIdle
    /\ \E timeout_s \in 0..MaxTimeout, pct \in ThresholdPcts :
         ws' = [InitWs EXCEPT !.pc = "loop", !.timeout_s = timeout_s,
                              !.threshold = pct, !.window_size = DefaultWindowSize]
    /\ fa' = StartFa("wait_for_stable")
    /\ op' = "wait_for_stable" /\ ro' = InitRo /\ av' = InitAv /\ rr' = InitRr
    /\ UNCHANGED <<simulate, sim_value, sim_counter, device, lc, tr>>
    /\ UNCHANGED decodeVars
    /\ UNCHANGED unitVars

\* what the procedure the facade called ended with
ProcRaised ==
    \/ op = "read_once" /\ ro.pc = "raised"
    \/ op = "read_averaged" /\ av.pc = "raised"
    \/ op = "read_resistance" /\ rr.pc = "raised"
    \/ op = "wait_for_stable" /\ ws.pc = "raised"

ProcExc ==
    CASE op = "read_once"       -> ro.exc
      [] op = "read_averaged"   -> av.exc
      [] op = "read_resistance" -> rr.exc
      [] op = "wait_for_stable" -> ws.exc

\* the except clauses of the facade operation
FacadeError(call, e) ==
    CASE call = "read_value"      -> read_value_error(e)
      [] call = "read_resistance" -> read_resistance_error(e)
      [] call = "read_averaged"   -> read_averaged_error(e)
      [] call = "wait_for_stable" -> wait_for_stable_error(e)

\* the procedure came back to the facade operation
FacadeReturn ==
    /\ fa.pc = "call" /\ TopIdle
    /\ fa' = IF ProcRaised
             THEN [fa EXCEPT !.pc = "raised", !.exc = FacadeError(fa.call, ProcExc)]
             ELSE [fa EXCEPT !.pc = "returned"]
    /\ UNCHANGED <<simulate, sim_value, sim_counter, device, op, ro, av, ws, rr, lc, tr>>
    /\ UNCHANGED decodeVars
    /\ UNCHANGED unitVars

NextFacade ==
    \/ FacadeInitialize
    \/ FacadeShutdown
    \/ GetDeviceInfo
    \/ FacadeReadValue
    \/ FacadeReadResistance
    \/ FacadeReadAveraged
    \/ FacadeWaitForStable
    \/ FacadeReturn
    \/ ReadOnceAttempt
    \/ ReadOnceExhausted
    \/ AvCallReadOnce
    \/ AvHandleSample
    \/ AvFinish
    \/ RrFinish
    \/ WsLoopTest
    \/ WsHandleRead
    \/ WsSleep

SpecFacade == Init /\ [][NextFacade]_vars

(***************************************************************************)
(* A simulate session that keeps reading, long enough for the simulated    *)
(* value to go once round.                                                 *)
(***************************************************************************)
MaxSimCycle == 102

InitSim ==
    /\ simulate = TRUE
    /\ sim_value = SimFloor
    /\ phase = "session"
    /\ packet = <<>>
    /\ parsed = NotParsed
    /\ SessionIdle
    /\ ex = InitEx /\ hp = InitHp
    /\ tr = InitTr

SimReadAttempt == ReadOnceAttemptOn(FeedFor(simulate, device), MaxSimCycle)

NextSim ==
    \/ CallReadOnce
    \/ SimReadAttempt
    \/ ReadOnceExhausted

SpecSim == InitSim /\ [][NextSim]_vars

(***************************************************************************)
(* TestRunner: one run of run_full_sequence, the operator answering the    *)
(* prompts and each test passing or failing.                               *)
(***************************************************************************)
MaxAttempts == 2

\* what __init__ can leave: the hipot sequence needs the relay driver
RunnerSetups ==
    { t \in { [InitTr EXCEPT !.dialog = d, !.relay_driver = r, !.hipot_test_seq = h] :
                 d \in BOOLEAN, r \in BOOLEAN, h \in BOOLEAN } :
        t.hipot_test_seq => t.relay_driver }

InitRunner ==
    /\ simulate \in BOOLEAN
    /\ sim_value = SimFloor
    /\ phase = "session"
    /\ packet = <<>>
    /\ parsed = NotParsed
    /\ SessionIdle
    /\ ex = InitEx /\ hp = InitHp
    /\ tr \in RunnerSetups

\* run_full_sequence up to the branch: configuration, then demo or normal
RunFullSequence ==
    /\ tr.pc = "idle"
    /\ \E cfg_cancelled \in BOOLEAN, demo \in BOOLEAN :
         tr' = IF cfg_cancelled
               THEN [tr EXCEPT !.pc = "done", !.ok = FALSE,
                               !.ret = "Operator cancelled configuration"]
               ELSE IF demo
               THEN Returned(tr, TRUE, "DEMO sequence complete")
               ELSE [tr EXCEPT !.pc = "ready_prompt"]
    /\ UNCHANGED <<simulate, sim_value, rr, lc, fa>>
    /\ UNCHANGED sessionVars
    /\ UNCHANGED decodeVars
    /\ UNCHANGED unitVars

\* "Ready to begin testing?"
ReadyPrompt ==
    /\ tr.pc = "ready_prompt"
    /\ \E continue \in BOOLEAN :
         tr' = IF continue
               THEN [tr EXCEPT !.pc = "measuring", !.attempt = 0]
               ELSE Returned(IF tr.dialog THEN CloseUi(tr) ELSE tr, FALSE,
                             "Operator cancelled before starting tests")
    /\ UNCHANGED <<simulate, sim_value, rr, lc, fa>>
    /\ UNCHANGED sessionVars
    /\ UNCHANGED decodeVars
    /\ UNCHANGED unitVars

\* the first loop: meas_ok, meas_msg, meas_detail = self.run_measuring(ui, wo, pn)
RunMeasuring ==
    /\ tr.pc = "measuring"
    /\ \E passed \in BOOLEAN :
         tr' = [Invoked(tr, "run_measuring", passed) EXCEPT
                    !.pc = IF passed THEN "hipot" ELSE "measuring_failed",
                    !.attempt = IF passed THEN 0 ELSE @]
    /\ UNCHANGED <<simulate, sim_value, rr, lc, fa>>
    /\ UNCHANGED sessionVars
    /\ UNCHANGED decodeVars
    /\ UNCHANGED unitVars

\* "Measurement Test Failed": CONTINUE retries, EXIT leaves
MeasuringFailedPrompt ==
    /\ tr.pc = "measuring_failed"
    /\ \E continue \in {c \in BOOLEAN : c => tr.attempt < MaxAttempts} :
         tr' = IF continue
               THEN [tr EXCEPT !.pc = "measuring", !.attempt = @ + 1]
               ELSE IF tr.dialog
               THEN ReturnWithHipDetail(CloseUi(AllOff(tr)), FALSE,
                                        "Measuring failed (operator cancelled)")
               ELSE ReturnWithHipDetail(tr, FALSE, "Measuring failed (operator cancelled)")
    /\ UNCHANGED <<simulate, sim_value, rr, lc, fa>>
    /\ UNCHANGED sessionVars
    /\ UNCHANGED decodeVars
    /\ UNCHANGED unitVars

\* the second loop: hip_ok, hip_msg, hip_detail = self.run_hipot(...)
RunHipot ==
    /\ tr.pc = "hipot"
    /\ \E passed \in BOOLEAN :
         tr' = [Invoked(tr, "run_hipot", passed) EXCEPT
                    !.pc = IF passed THEN "passed" ELSE "hipot_failed",
                    !.hip_detail_bound = TRUE]
    /\ UNCHANGED <<simulate, sim_value, rr, lc, fa>>
    /\ UNCHANGED sessionVars
    /\ UNCHANGED decodeVars
    /\ UNCHANGED unitVars

\* "Hipot Test Failed": CONTINUE retries, EXIT opens the relays and leaves
HipotFailedPrompt ==
    /\ tr.pc = "hipot_failed"
    /\ \E continue \in {c \in BOOLEAN : c => tr.attempt < MaxAttempts} :
         tr' = IF continue
               THEN [tr EXCEPT !.pc = "hipot", !.attempt = @ + 1]
               ELSE IF tr.dialog
               THEN Returned(CloseUi(AllOff(OpenRelay(tr))), FALSE,
                             "Hipot failed (operator cancelled)")
               ELSE Returned(OpenRelay(tr), FALSE, "Hipot failed (operator cancelled)")
    /\ UNCHANGED <<simulate, sim_value, rr, lc, fa>>
    /\ UNCHANGED sessionVars
    /\ UNCHANGED decodeVars
    /\ UNCHANGED unitVars

\* both loops left by break: success dialog, relays off, window closed
BothPassed ==
    /\ tr.pc = "passed"
    /\ tr' = Returned(CloseUi(AllOff(tr)), TRUE, "Hipot + Measuring completed successfully")
    /\ UNCHANGED <<simulate, sim_value, rr, lc, fa>>
    /\ UNCHANGED sessionVars
    /\ UNCHANGED decodeVars
    /\ UNCHANGED unitVars

NextRunner ==
    \/ RunFullSequence
    \/ ReadyPrompt
    \/ RunMeasuring
    \/ MeasuringFailedPrompt
    \/ RunHipot
    \/ HipotFailedPrompt
    \/ BothPassed

SpecRunner == InitRunner /\ [][NextRunner]_vars

(***************************************************************************)
(* Extraction harness: one call of _extract_packet_from_report on a drawn  *)
(* HID report.  Byte i of a report is i + 1, or 128 + i + 1 where the      *)
(* report carries a byte above 0x7F, so every window is told apart.        *)
(***************************************************************************)
MaxReportLen == 20

ReportOf(len, high) == [i \in 1..len |-> IF (i - 1) \in high THEN 128 + i ELSE i]

\* no, one or two positions of a report of the given length
HighSets(len) == {{}} \cup {{a, b} : a \in 0..(len - 1), b \in 0..(len - 1)}

ExtractReports ==
    UNION { {ReportOf(len, high) : high \in HighSets(len)} : len \in 0..MaxReportLen }

InitExtract ==
    /\ simulate = FALSE
    /\ sim_value = SimFloor
    /\ phase = "session"
    /\ packet = <<>>
    /\ parsed = NotParsed
    /\ SessionIdle
    /\ tr = InitTr
    /\ hp = InitHp
    /\ ex \in {[InitEx EXCEPT !.pc = "input", !.report = r] : r \in ExtractReports}

\* packet = self._extract_packet_from_report(report)
ExtractPacket ==
    /\ ex.pc = "input"
    /\ LET r == _extract_packet_from_report(ex.report)
       IN  ex' = IF r.ok
                 THEN [ex EXCEPT !.pc = "returned", !.packet = r.packet]
                 ELSE [ex EXCEPT !.pc = "raised", !.exc = r.exc]
    /\ UNCHANGED <<simulate, sim_value, hp>>
    /\ UNCHANGED sessionVars
    /\ UNCHANGED decodeVars
    /\ UNCHANGED layerVars

NextExtract == ExtractPacket

SpecExtract == InitExtract /\ [][NextExtract]_vars

(***************************************************************************)
(* The frames of a simulate session: each read_packet synthesizes a frame, *)
(* the session's cmd_parse_packet answers from its own counter, and the    *)
(* same frame is given to the frame decoding of a hardware session.        *)
(***************************************************************************)
InitSimFrame ==
    /\ simulate = TRUE
    /\ sim_value = SimFloor
    /\ phase = "session"
    /\ packet = <<>>
    /\ parsed = NotParsed
    /\ SessionIdle
    /\ ex = InitEx /\ hp = InitHp
    /\ tr = InitTr

\* packet = self.transport.read_packet() in simulate mode
SimReadPacket ==
    /\ phase \in {"session", "parsed"}
    /\ sim_counter < MaxSimCycle
    /\ LET rp == read_packet(simulate, device, sim_counter, [kind |-> "none"])
       IN  /\ packet' = rp.packet
           /\ sim_counter' = rp.sim_counter
    /\ phase' = "input"
    /\ parsed' = NotParsed
    /\ UNCHANGED <<simulate, sim_value, device, op, ro, av, ws>>
    /\ UNCHANGED layerVars
    /\ UNCHANGED unitVars

\* the session's own answer moves _sim_value on; parsed is what the frame
\* decodes to on the non-simulate path of cmd_parse_packet
DecodeSimFrame ==
    /\ phase = "input"
    /\ sim_value' = cmd_parse_packet(packet, simulate, sim_value).sim_value
    /\ LET r == cmd_parse_packet(packet, FALSE, sim_value)
       IN  parsed' = [raised |-> r.raised, reading |-> r.reading]
    /\ phase' = "parsed"
    /\ UNCHANGED <<simulate, packet>>
    /\ UNCHANGED sessionVars
    /\ UNCHANGED layerVars
    /\ UNCHANGED unitVars

NextSimFrame ==
    \/ SimReadPacket
    \/ DecodeSimFrame

SpecSimFrame == InitSimFrame /\ [][NextSimFrame]_vars

(***************************************************************************)
(* run_hipot_test: one call, each driver call returning or raising.        *)
(***************************************************************************)
HpUnchanged ==
    /\ UNCHANGED <<simulate, sim_value, ex>>
    /\ UNCHANGED sessionVars
    /\ UNCHANGED decodeVars
    /\ UNCHANGED layerVars

MaxHipotRuns == 2

\* a caller that runs the test, and runs it again after it came back
CallRunHipotTest ==
    /\ hp.pc \in {"idle", "returned", "raised"}
    /\ hp.runs < MaxHipotRuns
    /\ \E keep_relay_closed \in BOOLEAN, reset_after_test \in BOOLEAN :
         hp' = [InitHp EXCEPT !.pc = "reset",
                              !.keep_relay_closed = keep_relay_closed,
                              !.reset_after_test = reset_after_test,
                              !.runs = hp.runs + 1,
                              !.relay8 = hp.relay8]
    /\ HpUnchanged

\* Step 1: hipot_driver.reset()
HpReset ==
    /\ hp.pc = "reset"
    /\ \E ok \in BOOLEAN :
         hp' = HpStep(hp, "reset", ok, "all_off", "Failed to reset hipot instrument")
    /\ HpUnchanged

\* Step 2: relay_driver.all_off()
HpAllOff ==
    /\ hp.pc = "all_off"
    /\ \E ok \in BOOLEAN :
         hp' = HpStep(hp, "all_off", ok, "set_relay", "Failed to configure relay")
    /\ HpUnchanged

\* Step 2: relay_driver.set_relay(7, True); relay_closed = True
HpSetRelay ==
    /\ hp.pc = "set_relay"
    /\ \E ok \in BOOLEAN :
         hp' = [HpStep(hp, "set_relay", ok, "run_from_file", "Failed to configure relay")
                  EXCEPT !.relay_closed = ok]
    /\ HpUnchanged

\* Step 3 & 4: hipot_driver.run_from_file(file_index=1, ...)
HpRunFromFile ==
    /\ hp.pc = "run_from_file"
    /\ \E ok \in BOOLEAN, passed \in BOOLEAN :
         hp' = [HpStep(hp, "run_from_file", ok, "reset_after", "Hipot test execution failed")
                  EXCEPT !.passed = ok /\ passed]
    /\ HpUnchanged

\* if reset_after_test: hipot_driver.reset(), a failure only logged
HpResetAfter ==
    /\ hp.pc = "reset_after"
    /\ IF hp.reset_after_test
       THEN \E ok \in BOOLEAN :
              hp' = [hp EXCEPT !.calls = Append(@, DriverCall("reset", ok)),
                               !.pc = "relay_management"]
       ELSE hp' = [hp EXCEPT !.pc = "relay_management"]
    /\ HpUnchanged

\* Step 6: if not keep_relay_closed: relay_driver.all_off(), a failure only
\* logged; return passed, raw_result
HpRelayManagement ==
    /\ hp.pc = "relay_management"
    /\ IF ~hp.keep_relay_closed
       THEN \E ok \in BOOLEAN :
              hp' = [hp EXCEPT !.calls = Append(@, DriverCall("all_off", ok)),
                               !.relay8 = Relay8After(@, "all_off", ok),
                               !.relay_closed = IF ok THEN FALSE ELSE @,
                               !.pc = "returned", !.ret = HpResult(hp.passed)]
       ELSE hp' = [hp EXCEPT !.pc = "returned", !.ret = HpResult(hp.passed)]
    /\ HpUnchanged

\* except Exception as e: emergency relay shutdown, then raise
HpExcept ==
    /\ hp.pc = "except"
    /\ IF NeedsEmergencyOff(hp)
       THEN \E ok \in BOOLEAN :
              hp' = [hp EXCEPT !.calls = Append(@, DriverCall("all_off", ok)),
                               !.relay8 = Relay8After(@, "all_off", ok),
                               !.pc = "raised"]
       ELSE hp' = [hp EXCEPT !.pc = "raised"]
    /\ HpUnchanged

InitHipot ==
    /\ simulate = FALSE
    /\ sim_value = SimFloor
    /\ phase = "session"
    /\ packet = <<>>
    /\ parsed = NotParsed
    /\ SessionIdle
    /\ ex = InitEx /\ hp = InitHp
    /\ tr = InitTr

NextHipot ==
    \/ CallRunHipotTest
    \/ HpReset
    \/ HpAllOff
    \/ HpSetRelay
    \/ HpRunFromFile
    \/ HpResetAfter
    \/ HpRelayManagement
    \/ HpExcept

SpecHipot == InitHipot /\ [][NextHipot]_vars

(***************************************************************************)
(* Decode harness: one call of cmd_parse_packet on a drawn frame.          *)
(***************************************************************************)
InitDecode ==
    /\ simulate \in BOOLEAN
    /\ sim_value = SimFloor
    /\ phase = "input"
    /\ packet \in DecodeInputs
    /\ parsed = NotParsed
    /\ SessionIdle
    /\ ex = InitEx /\ hp = InitHp
    /\ tr = InitTr

Parse ==
    /\ phase = "input"
    /\ LET r == cmd_parse_packet(packet, simulate, sim_value)
       IN  /\ parsed' = [raised |-> r.raised, reading |-> r.reading]
           /\ sim_value' = r.sim_value
    /\ phase' = "parsed"
    /\ UNCHANGED <<simulate, packet>>
    /\ UNCHANGED sessionVars
    /\ UNCHANGED layerVars
    /\ UNCHANGED unitVars

NextDecode == Parse

SpecDecode == InitDecode /\ [][NextDecode]_vars

(***************************************************************************)
(* Reading the claims' cases off a frame, from the wire layout alone.      *)
(***************************************************************************)
FrameOK(p)     == Len(p) = 14 /\ p[13] = 13 /\ p[14] = 10
Malformed(p)   == Len(p) # 14 \/ (Len(p) = 14 /\ ~(p[13] = 13 /\ p[14] = 10))
OverloadBit(p) == p[8] % 2 = 1
NegativeBit(p) == (p[8] \div 4) % 2 = 1
Nibble(p, i)   == p[i + 1] % 16
SomeDigitNonZero(p) == \E i \in 1..5 : Nibble(p, i) \in 1..9

HasValue(r)    == r.value # None
\* r.value = num/den (both in 1/Scale)
ValueIs(r, num, den) == HasValue(r) /\ r.value[1] * den = num * r.value[2]
ValueNeg(r)    == HasValue(r) /\ r.value[1] < 0
ValueNonPos(r) == HasValue(r) /\ r.value[1] <= 0

Decoded == phase = "parsed" /\ ~parsed.raised

\* C1 (as claimed): on a hardware session the frame with range index 1, mode
\* nibble 0x3, digits 0,2,2,0,0, negative and overload clear decodes to
\* value 2.200, unit "kOhm", mode "Resistance".
C1_Scenario ==
    /\ phase = "parsed" /\ ~simulate /\ FrameOK(packet)
    /\ packet[1] % 8 = 1 /\ Nibble(packet, 6) = 3
    /\ <<Nibble(packet, 1), Nibble(packet, 2), Nibble(packet, 3),
         Nibble(packet, 4), Nibble(packet, 5)>> = <<0, 2, 2, 0, 0>>
    /\ ~NegativeBit(packet) /\ ~OverloadBit(packet)

C1_Claim ==
    C1_Scenario =>
        /\ ~parsed.raised
        /\ ValueIs(parsed.reading, 22 * (Scale \div 10), 1)
        /\ parsed.reading.unit = "kOhm"
        /\ parsed.reading.mode = "Resistance"

\* C2: every 14-byte frame with a valid terminator and the overload bit set
\* decodes to a reading with value absent and is_overload true, whatever its
\* digit, range and mode bytes are.
C2_OverloadHasNoValue ==
    (phase = "parsed" /\ ~simulate /\ FrameOK(packet) /\ OverloadBit(packet)) =>
        /\ ~parsed.raised
        /\ parsed.reading.value = None
        /\ parsed.reading.is_overload

C2_Witness ==
    /\ Decoded /\ ~simulate /\ FrameOK(packet) /\ OverloadBit(packet)
    /\ Nibble(packet, 1) = 9 /\ Nibble(packet, 6) = 3
    /\ parsed.reading.value = None /\ parsed.reading.is_overload

\* C3 (as claimed): every valid frame with the negative bit set and the
\* overload bit clear decodes to a strictly negative value, whatever the
\* five digits are.
C3_Original ==
    (phase = "parsed" /\ ~simulate /\ FrameOK(packet)
        /\ NegativeBit(packet) /\ ~OverloadBit(packet)) =>
        ValueNeg(parsed.reading)

\* C3 (amended): such a frame decodes to a value that is present and <= 0,
\* and strictly negative exactly when one of the five digit nibbles is 1..9.
C3_NegativeNonPositive ==
    (phase = "parsed" /\ ~simulate /\ FrameOK(packet)
        /\ NegativeBit(packet) /\ ~OverloadBit(packet)) =>
        /\ ~parsed.raised
        /\ ValueNonPos(parsed.reading)
        /\ parsed.reading.is_negative
        /\ (ValueNeg(parsed.reading) <=> SomeDigitNonZero(packet))

C3_Witness ==
    /\ Decoded /\ ~simulate /\ FrameOK(packet)
    /\ NegativeBit(packet) /\ ~OverloadBit(packet)
    /\ SomeDigitNonZero(packet) /\ ValueNeg(parsed.reading)

IsErrorReading(res, p) ==
    /\ ~res.raised
    /\ res.reading.is_overload
    /\ res.reading.value = None
    /\ HasError(res.reading)
    /\ res.reading.raw_packet = p

\* C4 (as claimed): for every session configuration (hardware or simulate) a
\* byte sequence of length other than 14, or of length 14 with a wrong
\* terminator, gives an error reading (is_overload, no value, flags.error,
\* raw_packet = input) and never raises.
C4_Original ==
    (phase = "parsed" /\ Malformed(packet)) => IsErrorReading(parsed, packet)

\* C4 (amended): the same, for a hardware (non-simulate) session only.
C4_MalformedGivesErrorReading ==
    (phase = "parsed" /\ ~simulate /\ Malformed(packet)) =>
        IsErrorReading(parsed, packet)

C4_Witness ==
    /\ phase = "parsed" /\ ~simulate
    /\ Len(packet) = 14 /\ packet[13] = 10 /\ packet[14] = 13
    /\ IsErrorReading(parsed, packet)
    /\ parsed.reading.flags.error = "Invalid terminator: 0a0d"

(***************************************************************************)
(* Properties of the reading procedures.                                   *)
(***************************************************************************)
OverloadMeansNoValue(r) == r.is_overload => r.value = None

\* C5: every MeterReading an operation produces (cmd_parse_packet on its
\* success, error and simulate paths, read_once, read_averaged,
\* wait_for_stable) has no value when is_overload is true.
C5_OverloadImpliesAbsent ==
    /\ OverloadMeansNoValue(parsed.reading)
    /\ OverloadMeansNoValue(ro.reading)
    /\ OverloadMeansNoValue(av.result)
    /\ OverloadMeansNoValue(ws.result)

C5_Witness ==
    /\ op = "read_once" /\ ro.pc = "returned"
    /\ ro.reading.raw_packet = Frame_Overload
    /\ ro.reading.is_overload /\ ro.reading.value = None

ValidValues(seen) == SelectSeq(seen, LAMBDA e : e.kind = "valid")
NumKind(seen, k)  == Len(SelectSeq(seen, LAMBDA e : e.kind = k))

RECURSIVE SumValues(_)
SumValues(es) == IF es = <<>> THEN 0 ELSE Head(es).v + SumValues(Tail(es))

\* C7: with N overload (or absent-value) samples and M >= 1 valid ones,
\* N + M = sample_count, read_averaged returns the arithmetic mean of exactly
\* the M valid values, flags.sample_count = M, flags.averaged, not overload.
C7_MeanOfValidSamples ==
    (/\ AvDone
     /\ Len(av.seen) = av.sample_count
     /\ NumKind(av.seen, "failed") = 0
     /\ NumKind(av.seen, "valid") >= 1) =>
        /\ av.pc = "returned"
        /\ HasValue(av.result)
        /\ av.result.value[1] * NumKind(av.seen, "valid")
             = SumValues(ValidValues(av.seen)) * av.result.value[2]
        /\ av.result.flags.sample_count = NumKind(av.seen, "valid")
        /\ av.result.flags.averaged
        /\ ~av.result.is_overload

C7_Witness ==
    /\ av.pc = "returned" /\ av.sample_count = 3
    /\ NumKind(av.seen, "overload") = 1 /\ NumKind(av.seen, "valid") = 2
    /\ av.seen[1].kind = "valid" /\ av.seen[1].v = 180000
    /\ av.seen[3].kind = "valid" /\ av.seen[3].v = 184000
    /\ ValueIs(av.result, 182000, 1)
    /\ av.result.flags.sample_count = 2

\* C8: when read_averaged collects no usable sample (all overload, absent or
\* failed, or sample_count 0) it fails with UT61EAutoError "no valid samples"
\* and returns no reading.
C8_NoSamplesRaises ==
    (AvDone /\ NumKind(av.seen, "valid") = 0) =>
        /\ av.pc = "raised"
        /\ av.exc.type = "UT61EAutoError"
        /\ av.exc.msg = "No valid samples obtained for averaging"
        /\ av.result = NoReading

C8_Witness ==
    /\ av.pc = "raised" /\ av.sample_count = 2 /\ Len(av.seen) = 2
    /\ av.seen[1].kind = "overload" /\ av.seen[2].kind = "failed"
    /\ av.exc.type = "UT61EAutoError"

\* every read so far gave the same non-overload value
ConstantFeed(seen) ==
    \A k \in 1..Len(seen) : seen[k].kind = "valid" /\ seen[k].v = seen[1].v

\* C9: with stability_threshold >= 0, window_size >= 1 and every read giving
\* the same value V, wait_for_stable returns on the window_size-th read, with
\* no further read, and the reading returned has value V.
C9_ConstantFeedReturnsAtWindow ==
    (/\ op = "wait_for_stable"
     /\ ws.threshold >= 0 /\ ws.window_size >= 1
     /\ ConstantFeed(ws.seen)
     /\ Len(ws.seen) >= ws.window_size) =>
        /\ ws.pc = "returned"
        /\ Len(ws.seen) = ws.window_size
        /\ ws.calls = ws.window_size
        /\ ValueIs(ws.result, ws.seen[1].v, 1)

C9_Witness ==
    /\ op = "wait_for_stable" /\ ws.pc = "returned"
    /\ ws.window_size = 2 /\ ws.threshold = 0 /\ ws.calls = 2
    /\ ConstantFeed(ws.seen) /\ ws.seen[1].v = 184000
    /\ ValueIs(ws.result, 184000, 1)

\* C10: wait_for_stable ends only by returning a reading or by raising
\* UT61EAutoTimeoutError; the timeout is raised only once the elapsed time is
\* >= timeout_s; a failed read_once or an overload reading never propagates
\* and never ends the loop early (the pass that saw it goes on to the sleep).
C10_EndsByReturnOrTimeout ==
    /\ ws.pc = "raised" =>
          /\ ws.exc.type = "UT61EAutoTimeoutError"
          /\ ws.exc = StabilityTimeout(ws.timeout_s, ws.threshold)
          /\ ws.raised_at >= ws.timeout_s
          /\ ws.result = NoReading
    /\ ws.pc = "returned" =>
          /\ ws.seen # <<>>
          /\ ws.seen[Len(ws.seen)].kind = "valid"
          /\ HasValue(ws.result) /\ ~ws.result.is_overload
          /\ ws.exc = NoExc
    /\ (ws.pc = "sleep" /\ ws.seen[Len(ws.seen)].kind # "valid") =>
          /\ ws.recent_values = <<>>
          /\ ws.exc = NoExc /\ ws.result = NoReading

C10_Witness ==
    /\ ws.pc = "raised" /\ ws.timeout_s = 2 /\ ws.raised_at >= 2
    /\ Len(ws.seen) = 2
    /\ ws.seen[1].kind = "failed" /\ ws.seen[2].kind = "overload"
    /\ ws.exc.type = "UT61EAutoTimeoutError"

(***************************************************************************)
(* read_resistance                                                         *)
(***************************************************************************)
\* the three readings of the example, as read_once gave them
Seen_18_0_18_4_18_2 ==
    << [kind |-> "valid", v |-> 180000],
       [kind |-> "valid", v |-> 184000],
       [kind |-> "valid", v |-> 182000] >>

EveryAttemptTimedOut ==
    ro.pc = "raised" /\ ro.max_retries > 0 /\ ro.only_timeouts

\* C12: when every attempt inside read_once timed out and the retries are used
\* up, read_value raises UT61EAutoTimeoutError, not a plain UT61EAutoError.
C12_ExhaustedRaisesTimeoutError ==
    (fa.call = "read_value" /\ fa.pc = "raised" /\ EveryAttemptTimedOut) =>
        fa.exc.type = "UT61EAutoTimeoutError"

\* C13: when wait_for_stable gives up because timeout_s has passed, the facade
\* operation raises UT61EAutoTimeoutError, not a plain UT61EAutoError.
C13_NotStableRaisesTimeoutError ==
    (fa.call = "wait_for_stable" /\ fa.pc = "raised" /\ ws.pc = "raised") =>
        fa.exc.type = "UT61EAutoTimeoutError"

FacadeReadOps ==
    {"initialize", "read_value", "read_resistance", "read_averaged", "wait_for_stable"}

\* C14: an exception that leaves initialize, read_value, read_resistance,
\* read_averaged or wait_for_stable is a UT61EAutoError (or its subclass
\* UT61EAutoTimeoutError), and shutdown never raises.
C14_OnlyDriverErrorsEscape ==
    /\ (fa.pc = "raised" /\ fa.call \in FacadeReadOps) =>
           /\ fa.exc.type \in {"UT61EAutoError", "UT61EAutoTimeoutError"}
           /\ IsInstance(fa.exc, "UT61EAutoError")
    /\ fa.call = "shutdown" => fa.pc = "returned" /\ fa.exc = NoExc

\* a read fails at the facade in a session whose last shutdown met a handle
\* that would not close
C14_Witness ==
    /\ fa.call = "read_value" /\ fa.pc = "raised"
    /\ ro.exc.type = "UT61EAutoTimeoutError"
    /\ lc.call = "close" /\ lc.handle_close_raised

(***************************************************************************)
(* The handle's life                                                       *)
(***************************************************************************)
\* C15: on hardware a close() that follows a close() does not call the handle's
\* close again, a close() of an open handle does, and close() never raises, not
\* even when the handle's own close fails.
C15_ReleasedOncePerOpen ==
    (~simulate /\ lc.call = "close") =>
        /\ lc.exc = NoExc
        /\ fa.call = "shutdown" => fa.pc = "returned"
        /\ lc.closed_before => ~lc.handle_close_called

\* C16: when init() fails after the handle was opened, the handle is not left
\* open.
C16_FailedInitReleasesHandle ==
    (lc.call = "init" /\ lc.exc # NoExc /\ lc.handle_opened) => device # "open"

\* the last of initialize / shutdown was an initialize that succeeded
SessionOpen == lc.call = "init" /\ lc.exc = NoExc

\* C18: get_device_info()['is_open'] is true exactly when the session is open
\* (false before a successful initialize, after a failed open and after
\* shutdown).
C18_IsOpenTracksSession ==
    (fa.call = "get_device_info" /\ fa.pc = "returned") =>
        (fa.is_open <=> SessionOpen)

(***************************************************************************)
(* Simulate mode                                                           *)
(***************************************************************************)
\* C17: in simulate mode every read gives a reading in Ohm, mode Resistance,
\* with a value between the floor and the ceiling; the value is higher than the
\* one of the read before, except that the read after the ceiling gives the
\* floor.  (sim_value is the value the read before gave: each read leaves its
\* value there.)
C17_SimulatedSawtooth ==
    [][ (simulate /\ ro'.reads = ro.reads + 1) =>
            LET r == ro'.reading
            IN  /\ ro'.pc = "returned"
                /\ r.unit = "Ohm" /\ r.mode = "Resistance"
                /\ r.value # None /\ r.value[2] = 1
                /\ SimFloor <= r.value[1] /\ r.value[1] <= SimCeiling
                /\ sim_value' = r.value[1]
                /\ \/ r.value[1] > sim_value
                   \/ sim_value = SimCeiling /\ r.value[1] = SimFloor ]_vars

\* the read after the one that gave the ceiling
C17_Witness ==
    /\ simulate /\ ro.pc = "returned"
    /\ sim_counter = 101
    /\ ro.reading.value = Some(SimFloor, 1)
    /\ ro.reading.unit = "Ohm"

(***************************************************************************)
(* TestRunner                                                              *)
(***************************************************************************)
\* C19: in the normal flow run_measuring is not invoked before run_hipot has
\* been invoked and has passed in the same run.
C19_HipotBeforeMeasuring ==
    \A k \in 1..Len(tr.calls) :
        tr.calls[k].fn = "run_measuring" =>
            \E j \in 1..(k - 1) : tr.calls[j].fn = "run_hipot" /\ tr.calls[j].passed

(***************************************************************************)
(* The decoded value and the display digits                                *)
(***************************************************************************)
\* digit nibble i (1..5) of the frame, a nibble above 9 counted as 0
DisplayDigit(p, i) == IF Nibble(p, i) > 9 THEN 0 ELSE Nibble(p, i)

\* the five digits read as one integer, most significant first
DisplayInt(p) ==
    10000 * DisplayDigit(p, 1) + 1000 * DisplayDigit(p, 2) + 100 * DisplayDigit(p, 3)
        + 10 * DisplayDigit(p, 4) + DisplayDigit(p, 5)

\* decimal_pos of the row the frame's mode nibble and range index resolve to
RowDecimalPos(p) == _parse_mode_and_range(Nibble(p, 6), p[1] % 8).decimal_pos

C21_ReadOnceStopsAtFirstGood ==
    ro.pc # "idle" =>
        /\ ro.reads <= ro.max_retries
        /\ ro.pc = "loop" => ro.reads = ro.attempt
        /\ ro.pc = "raised" => ro.reads = ro.attempt /\ ro.reads = ro.max_retries
        /\ ro.pc = "returned" =>
              /\ ro.reads = ro.attempt + 1
              /\ "error" \notin DOMAIN ro.reading.flags
              /\ ro.reading # NoReading

\* the first packet decodes to an error reading, the second is good
C21_Witness ==
    /\ ~simulate /\ op = "read_once" /\ ro.pc = "returned"
    /\ ro.max_retries = 2 /\ ro.reads = 2 /\ ro.attempt = 1
    /\ ro.failed.type = "UT61EAutoError"
    /\ ro.reading.raw_packet = Frame_18_40k

(***************************************************************************)
(* wait_for_stable: what holds when it returns                             *)
(***************************************************************************)
\* the values of the last n reads of a history
LastValues(seen, n) == [k \in 1..n |-> seen[Len(seen) - n + k].v]

\* C22: when wait_for_stable returns a reading R, R is the most recent read,
\* it is not an overload and has a value, the last window_size reads were
\* all successful non-overload reads, and each of their values is within
\* stability_threshold x |mean| of their mean (within stability_threshold of
\* zero when the mean is exactly 0).
C22_ReturnedReadingIsStable ==
    (op = "wait_for_stable" /\ ws.pc = "returned") =>
        LET n == Len(ws.seen)
            w == ws.window_size
        IN  /\ w >= 1 /\ n >= w /\ n = ws.calls
            /\ \A k \in (n - w + 1)..n : ws.seen[k].kind = "valid"
            /\ ~ws.result.is_overload
            /\ ws.result.value = Some(ws.seen[n].v, 1)
            /\ LET vals  == LastValues(ws.seen, w)
                   total == SumSeq(vals)
               IN  \A k \in 1..w :
                     IF total = 0
                     THEN 100 * Abs(vals[k]) <= ws.threshold * Scale
                     ELSE 100 * Abs(w * vals[k] - total) <= ws.threshold * Abs(total)

\* an overload, then 18.00 and 18.40 kOhm: returned on the third read with a
\* window of two and a threshold of 5 %
C22_Witness ==
    /\ op = "wait_for_stable" /\ ws.pc = "returned"
    /\ ws.window_size = 2 /\ ws.threshold = 5
    /\ Len(ws.seen) = 3
    /\ ws.seen[1].kind = "overload"
    /\ ws.seen[2] = [kind |-> "valid", v |-> 180000]
    /\ ws.seen[3] = [kind |-> "valid", v |-> 184000]
    /\ ws.result.value = Some(184000, 1)

(***************************************************************************)
(* Packet extraction                                                       *)
(***************************************************************************)
\* the 14 bytes of a report from a 0-based offset on
WindowAt(report, offset) == [i \in 1..14 |-> report[offset + i]]

\* a full window fits at the offset and none of its bytes is above 0x7F
GoodOffset(report, offset) ==
    /\ offset + 14 <= Len(report)
    /\ \A i \in 1..14 : report[offset + i] <= 127

GoodOffsets(report) == {o \in {0, 1, 2, 5} : GoodOffset(report, o)}

\* C23: packet extraction returns the 14-byte window at the first of the
\* offsets 0, 1, 2, 5 at which a full window fits with every byte <= 0x7F;
\* with no such offset it returns the first 14 bytes of a report of at least
\* 14 bytes, and otherwise raises ValueError and returns nothing.  A returned
\* packet has exactly 14 bytes.
C23_ExtractsFirstGoodWindow ==
    ex.pc \in {"returned", "raised"} =>
        LET good == GoodOffsets(ex.report)
        IN  /\ good # {} =>
                 /\ ex.pc = "returned"
                 /\ ex.packet = WindowAt(ex.report,
                                         CHOOSE o \in good : \A p \in good : o <= p)
            /\ (good = {} /\ Len(ex.report) >= 14) =>
                 /\ ex.pc = "returned"
                 /\ ex.packet = WindowAt(ex.report, 0)
            /\ (good = {} /\ Len(ex.report) < 14) =>
                 /\ ex.pc = "raised"
                 /\ ex.exc.type = "ValueError"
                 /\ ex.packet = <<>>
            /\ ex.pc = "returned" => Len(ex.packet) = 14

\* a 17-byte report whose first byte is above 0x7F: offsets 1 and 2 both
\* qualify and the window at offset 1 is the one returned
C23_Witness ==
    /\ ex.pc = "returned"
    /\ Len(ex.report) = 17 /\ ex.report[1] > 127
    /\ GoodOffsets(ex.report) = {1, 2}
    /\ ex.packet = WindowAt(ex.report, 1)

(***************************************************************************)
(* Mode and range resolution                                               *)
(***************************************************************************)
\* the row the claim names: the one at the range index, the first one when
\* the index is past the end of the category's table
ClaimedRow(p) ==
    LET table == RangesOf(Nibble(p, 6))
        index == p[1] % 8
    IN  IF index + 1 <= Len(table) THEN table[index + 1] ELSE table[1]

\* the reading was built with the given unit, mode and decimal position
BuiltWith(p, r, unit, mode, decimal_pos) ==
    /\ r.unit = unit
    /\ r.mode = mode
    /\ ~OverloadBit(p) =>
          /\ r.value # None
          /\ r.value[1] * Pow10(5 - decimal_pos)
               = (IF NegativeBit(p) THEN -DisplayInt(p) ELSE DisplayInt(p)) * Scale * r.value[2]

FirstIndex(xs, x) == CHOOSE k \in 1..Len(xs) : xs[k] = x /\ \A j \in 1..(k - 1) : xs[j] # x

\* x occurs in xs as often as anything does, and no element that occurs as
\* often occurs before it
MostCommonFirstEncountered(xs, x) ==
    /\ \E k \in 1..Len(xs) : xs[k] = x
    /\ \A k \in 1..Len(xs) :
         /\ Count(xs, xs[k]) <= Count(xs, x)
         /\ Count(xs, xs[k]) = Count(xs, x) => FirstIndex(xs, x) <= k

\* C25: the unit and the mode of the reading read_averaged returns each occur
\* a maximal number of times among the collected samples, and on a tie it is
\* the one met first in the sample sequence.
C25_MostCommonFirstOnTie ==
    (op = "read_averaged" /\ av.pc = "returned") =>
        /\ MostCommonFirstEncountered(av.units, av.result.unit)
        /\ MostCommonFirstEncountered(av.modes, av.result.mode)

(***************************************************************************)
(* read_averaged: how often it reads and sleeps                            *)
(***************************************************************************)
\* the kept (valid) samples among the first n reads of a history
KeptAmong(seen, n) == Cardinality({k \in 1..n : k <= Len(seen) /\ seen[k].kind = "valid"})

ReadsAndSleepsOfAveraged ==
    op = "read_averaged" =>
        /\ av.calls <= av.sample_count
        /\ av.sleeps <= KeptAmong(av.seen, av.sample_count - 1)
        /\ AvDone =>
              /\ av.calls = av.sample_count
              /\ Len(av.seen) = av.sample_count
              /\ av.sleeps = KeptAmong(av.seen, av.sample_count - 1)
              /\ ~av.slept_last

\* C26: read_averaged(sample_count, delay_s) calls read_once exactly
\* sample_count times and then ends (returns or raises): an overload, an
\* absent value or a failed read_once is skipped without an extra read, the
\* delay follows only kept samples and never the sample_count-th one.
C26_ReadsSampleCountTimes ==
    /\ []ReadsAndSleepsOfAveraged
    /\ (op = "read_averaged" /\ ~AvDone) ~> (op = "read_averaged" /\ AvDone)

\* three samples asked for: one kept, one overload, one failed read_once
C26_Witness ==
    /\ op = "read_averaged" /\ AvDone
    /\ av.sample_count = 3 /\ av.calls = 3
    /\ av.seen[1].kind = "valid"
    /\ av.seen[2].kind = "overload"
    /\ av.seen[3].kind = "failed"
    /\ av.sleeps = 1 /\ Len(av.samples) = 1

(***************************************************************************)
(* The synthesized frame against the frame decoding                        *)
(***************************************************************************)
\* the resistance read_packet synthesized its latest frame for, in 1/Scale
SynthesizedOhms == SimResistanceTenths(sim_counter) * (Scale \div 10)

\* C27: the frame read_packet synthesizes in simulate mode for a resistance R
\* decodes, on the non-simulate path of cmd_parse_packet, without error to
\* unit "Ohm", mode "Resistance" and value R, the unit and value the simulate
\* session reports for that read.
C27_SimFrameDecodesToItsResistance ==
    phase = "parsed" =>
        /\ ~parsed.raised
        /\ "error" \notin DOMAIN parsed.reading.flags
        /\ parsed.reading.unit = "Ohm"
        /\ parsed.reading.mode = "Resistance"
        /\ parsed.reading.value = Some(SynthesizedOhms, 1)
        /\ parsed.reading.unit = SimReading(sim_value, packet).unit
        /\ parsed.reading.value = SimReading(sim_value, packet).value

(***************************************************************************)
(* read_resistance on samples of different units                           *)
(***************************************************************************)
\* ohms per unit of a sample
UnitOhms(unit) ==
    CASE unit = "kOhm" -> 1000
      [] unit = "MOhm" -> 1000000
      [] OTHER         -> 1

\* the sum of the collected samples, each in ohms (in 1/Scale of an ohm)
RECURSIVE SumInOhms(_, _)
SumInOhms(samples, units) ==
    IF samples = <<>> THEN 0
    ELSE Head(samples) * UnitOhms(Head(units)) + SumInOhms(Tail(samples), Tail(units))

\* C28: whatever the units of the valid samples (Ohm, kOhm, MOhm, mixed when
\* the meter changes range between samples), read_resistance returns the
\* arithmetic mean of the samples' values expressed in ohms.  (The result is
\* num/den in whole ohms; den divides Scale * n.)
C28_MeanOfSamplesInOhms ==
    (op = "read_resistance" /\ rr.pc = "returned") =>
        LET n == Len(av.samples)
            s == SumInOhms(av.samples, av.units)
            q == (Scale * n) \div rr.result[2]
        IN  /\ (Scale * n) % rr.result[2] = 0
            /\ s % q = 0
            /\ rr.result[1] = s \div q

(***************************************************************************)
(* TestRunner: EXIT after a failed measurement                             *)
(***************************************************************************)
\* the run is over and the last test invoked was a measurement that failed:
\* the operator answered EXIT to "Measurement Test Failed"
ExitedAfterFailedMeasurement ==
    /\ tr.pc \in {"done", "raised"}
    /\ tr.calls # <<>>
    /\ tr.calls[Len(tr.calls)] = [fn |-> "run_measuring", passed |-> FALSE]

\* C29: when a measurement attempt fails and the operator chooses EXIT, the
\* relays are commanded off, _run_normal_sequence returns its failure tuple
\* without raising, and run_full_sequence logs one result record and returns
\* (False, message).
C29_ExitAfterFailedMeasurement ==
    (ExitedAfterFailedMeasurement /\ tr.dialog /\ tr.relay_driver) =>
        /\ tr.all_off >= 1
        /\ tr.pc = "done"
        /\ tr.exc = NoExc
        /\ tr.logged
        /\ ~tr.ok
        /\ tr.ret = "Measuring failed (operator cancelled)"

(***************************************************************************)
(* run_hipot_test: the order of the calls and the relays on exit           *)
(***************************************************************************)
HpFns == [k \in 1..Len(hp.calls) |-> hp.calls[k].fn]

\* C30: with keep_relay_closed false the driver calls start reset, all_off,
\* set_relay(7, on), run_from_file in that order, and whenever the function
\* ends (returns or lets the exception out) after set_relay(7, on) returned,
\* relay_driver.all_off() was invoked after that set_relay.
C30_RelaysOffOnEveryExit ==
    (hp.pc # "idle" /\ ~hp.keep_relay_closed) =>
        /\ Len(hp.calls) <= 4 =>
              HpFns = SubSeq(<<"reset", "all_off", "set_relay", "run_from_file">>,
                             1, Len(hp.calls))
        /\ Len(hp.calls) > 4 =>
              SubSeq(HpFns, 1, 4) = <<"reset", "all_off", "set_relay", "run_from_file">>
        /\ hp.pc \in {"returned", "raised"} =>
              \A c \in 1..Len(hp.calls) :
                  hp.calls[c] = DriverCall("set_relay", TRUE) =>
                      \E k \in (c + 1)..Len(hp.calls) : hp.calls[k].fn = "all_off"

\* run_from_file raises with relay 8 closed: the handler turns the relays off
\* and the exception goes on to the caller
C30_Witness ==
    /\ hp.pc = "raised" /\ ~hp.keep_relay_closed
    /\ hp.calls = << DriverCall("reset", TRUE), DriverCall("all_off", TRUE),
                     DriverCall("set_relay", TRUE), DriverCall("run_from_file", FALSE),
                     DriverCall("all_off", TRUE) >>
    /\ hp.exc.type = "Exception"
    /\ hp.relay8 = "open"
====
